---- MODULE Spec2Model ----
(***************************************************************************)
(* State-machine model of the credential lifecycle manager (AuthManager)   *)
(* and of the resilient streaming client (GeminiApiClient).                *)
(*                                                                         *)
(* Every `await` of the TypeScript source is a scheduling point: the code  *)
(* between two awaits of one call runs atomically (single-threaded event   *)
(* loop), and calls of different callers interleave at the awaits.  File   *)
(* operations are split in the moment the storage acts and the             *)
(* continuation of the awaiting code.                                      *)
(***************************************************************************)
EXTENDS Integers, Sequences, FiniteSets, TLC

\* ------------------------------------------------------------ bounds
\* Number of concurrent callers of one AuthManager.
NumProcs == 2
\* Number of times the clock may advance in one behaviour.
MaxTicks == 2
\* Number of successful answers the refresh endpoint gives in one behaviour.
MaxRefresh == 2
\* Number of content chunks one streaming attempt delivers at most.
MaxChunks == 1
MaxEvents == 2
MaxAggregated == 2
MaxPieces == 3

\* ------------------------------------------------------------ program constants
TOKEN_BUFFER_TIME == 300000
CONNECTION_TIMEOUT_MS == 100000
IDLE_TIMEOUT_MS == 100000
QUICK_FAIL_THRESHOLD_MS == 5000

Procs == 1..NumProcs

\* ------------------------------------------------------------ values
\* Access tokens and refresh tokens are records, so that any two compare.
Tok(src, n) == [src |-> src, n |-> n]
NullTok == Tok("null", 0)
NoRT == Tok("none", 0)

\* The durable record /app/data/token-cache.json, or what stands in its place.
FileRec(kind, at, rt, exp) == [kind |-> kind, at |-> at, rt |-> rt, exp |-> exp]
NoFile == FileRec("absent", NullTok, NoRT, 0)
EmptyFile == FileRec("empty", NullTok, NoRT, 0)
GarbageFile == FileRec("garbage", NullTok, NoRT, 0)
CachedTokenData(at, exp, rt) == FileRec("record", at, rt, exp)

\* expires_in of a refresh answer, in seconds ("typically 1 hour from now").
ExpiresInChoices == {3600}

\* Expiry dates a credential found at start-up may have (now = 0 at start).
FreshExpiry == TOKEN_BUFFER_TIME + QUICK_FAIL_THRESHOLD_MS
StaleExpiry == TOKEN_BUFFER_TIME

VARIABLES
    now,          \* Date.now()
    ticks,        \* clock advances so far
    accessToken,  \* AuthManager.accessToken
    file,         \* content of the durable token cache
    issued,       \* access tokens the refresh endpoint has issued
    env,          \* process.env / Env
    proc,         \* per caller: the position and locals of its call
    unit          \* a component exercised on its own: its input and its locals

vars == <<now, ticks, accessToken, file, issued, env, proc, unit>>

\* No component is exercised on its own.
NoUnit == [kind |-> "none"]

\* ------------------------------------------------------------ per-call state
\* One entry of a call's history: what it did, with which model id, token
\* and HTTP status.
NoBody == [model |-> "", project |-> "", request |-> ""]
Ev(e, m, t, s) == [ev |-> e, m |-> m, t |-> t, s |-> s, body |-> NoBody]
\* An entry that carries a record (a credential, an answer) as its body.
EvWith(e, m, t, s, body) == [ev |-> e, m |-> m, t |-> t, s |-> s, body |-> body]

IdleProc ==
    [op |-> "idle", pc |-> "idle", result |-> "none",
     acont |-> "none", aerr |-> "none", amsg |-> <<>>, cached |-> NoFile, rtok |-> NoRT,
     phase |-> "none", pend |-> NoFile,
     ceRetry |-> FALSE, status |-> 0, body |-> "",
     modelId |-> "", frames |-> <<>>, perr |-> "none", out |-> <<>>,
     timers |-> {}, nextTimer |-> 1,
     log |-> <<>>]

Logged(r, e) == [r EXCEPT !.log = Append(@, e)]

\* ------------------------------------------------------------ AuthManager
\* Messages of errors (texts are sequences of pieces).
EnvNotSet == "GCP_SERVICE_ACCOUNT environment variable not set."
SyntaxError == "JSON Parse error"
WriteError == "Bun.write failed"
TokenRefreshFailed_NoBody(errorText) == <<"Token refresh failed">>

TokenRefreshFailed(errorText) == <<"Token refresh failed: ", errorText>>

\* `expiry_date - Date.now() > TOKEN_BUFFER_TIME`
StillValid_TwiceBuffer(exp) == exp - now > 2 * TOKEN_BUFFER_TIME

StillValid_NoBuffer(exp) == exp - now > 0

StillValid(exp) == exp - now > TOKEN_BUFFER_TIME

CallInitializeAuth_NoEnvCheck(r, cont) ==
    [r EXCEPT !.pc = "ia_read", !.aerr = "none", !.acont = cont, !.amsg = <<>>]

\* Entry of initializeAuth up to its first await: the environment check, then
\* the read of the token file is pending.  `cont` is where the caller goes on.
CallInitializeAuth(r, cont) ==
    IF env.seed.kind = "unset"
    THEN [r EXCEPT !.pc = "ia_done", !.aerr = "env", !.acont = cont,
                   !.amsg = <<EnvNotSet>>]
    ELSE [r EXCEPT !.pc = "ia_read", !.aerr = "none", !.acont = cont,
                   !.amsg = <<>>]

\* Lines 171-175: an error raised inside the try block is re-raised as
\* "Authentication failed: " + its message.
AuthenticationFailed(message) == <<"Authentication failed: ">> \o message

\* getTokenFromFile: null unless the file exists and holds a JSON record.
getTokenFromFile_NoCatch(readFails) == file

getTokenFromFile(readFails) ==
    IF readFails \/ file.kind # "record" THEN NoFile ELSE file

\* The storage answers the read of initializeAuth.
IaRead(p, readFails) ==
    /\ proc[p].pc = "ia_read"
    /\ proc' = [proc EXCEPT ![p] =
            [Logged(@, EvWith("read", IF readFails THEN "error" ELSE file.kind,
                              NullTok, 0, getTokenFromFile(readFails)))
                EXCEPT !.cached = getTokenFromFile(readFails), !.pc = "ia_check"]]
    /\ UNCHANGED <<unit, now, ticks, accessToken, file, issued, env>>

\* Lines 134 and 160: `this.accessToken = <credential>.access_token`
AdoptToken_Skipped(access_token) == accessToken

AdoptToken(access_token) == access_token

\* Lines 153-170: the credentials of the environment.
SeedPath(p, r) ==
    LET seed == env.seed IN
    IF seed.kind # "creds"
    THEN /\ proc' = [proc EXCEPT ![p] =
                [r EXCEPT !.pc = "ia_done", !.aerr = "auth",
                          !.amsg = AuthenticationFailed(<<SyntaxError>>)]]
         /\ UNCHANGED accessToken
    ELSE IF StillValid(seed.exp)
    THEN /\ accessToken' = AdoptToken(seed.at)
         /\ proc' = [proc EXCEPT ![p] =
                [Logged(r, Ev("adopt", "seed", seed.at, now))
                    EXCEPT !.pend = CachedTokenData(seed.at, seed.exp, seed.rt),
                           !.pc = "ia_write"]]
    ELSE /\ proc' = [proc EXCEPT ![p] =
                [Logged(r, Ev("refreshReq", "", seed.rt, 0))
                    EXCEPT !.rtok = seed.rt, !.phase = "seed", !.pc = "ia_refresh"]]
         /\ UNCHANGED accessToken

\* Lines 130-151: the cached record is adopted, refreshed or passed over.
IaCheck(p) ==
    LET c == proc[p].cached
        r == Logged(proc[p], EvWith("check", "", NullTok, now, c))
    IN
    /\ proc[p].pc = "ia_check"
    /\ IF c.kind = "record" /\ StillValid(c.exp)
       THEN /\ accessToken' = AdoptToken(c.at)
            /\ proc' = [proc EXCEPT ![p] =
                    [Logged(r, Ev("adopt", "cached", c.at, now)) EXCEPT !.pc = "ia_done"]]
       ELSE IF c.kind = "record" /\ c.rt # NoRT
       THEN /\ proc' = [proc EXCEPT ![p] =
                    [Logged(r, Ev("refreshReq", "", c.rt, 0))
                        EXCEPT !.rtok = c.rt, !.phase = "cached", !.pc = "ia_refresh"]]
            /\ UNCHANGED accessToken
       ELSE SeedPath(p, r)
    /\ UNCHANGED <<unit, now, ticks, file, issued, env>>

\* The answer of the refresh endpoint, and the time it arrived.
TokenRefreshResponse(access_token, expires_in, refresh_token, date) ==
    [access_token |-> access_token, expires_in |-> expires_in,
     refresh_token |-> refresh_token, date |-> date]

\* Line 207: `Date.now() + refreshData.expires_in * 1000`
expiryTime_Seconds(expires_in) == now + expires_in

expiryTime(expires_in) == now + expires_in * 1000

\* refreshAndCacheToken, lines 203-220: the answer is adopted and handed to
\* cacheTokenToFile; the write is pending.
RefreshOk(p, newRT, expires_in) ==
    LET r == proc[p]
        at == Tok("refreshed", issued + 1)
        exp == expiryTime(expires_in)
        returnedRT == IF newRT THEN Tok("rtNew", issued + 1) ELSE NoRT
        nextRefreshToken == IF returnedRT # NoRT THEN returnedRT ELSE r.rtok
    IN
    /\ r.pc = "ia_refresh"
    /\ issued < MaxRefresh
    /\ issued' = issued + 1
    /\ accessToken' = at
    /\ proc' = [proc EXCEPT ![p] =
            [Logged(r, EvWith("refreshOk", "", at, 200,
                              TokenRefreshResponse(at, expires_in, returnedRT, now)))
                EXCEPT !.pend = CachedTokenData(at, exp, nextRefreshToken),
                       !.pc = "ia_write"]]
    /\ UNCHANGED <<unit, now, ticks, file, env>>

\* Lines 143-149: the refresh with the cached refresh token runs in a try
\* block of its own, whose catch only logs; the one at line 170 does not.
SwallowsRefreshError_Never(phase) == FALSE

SwallowsRefreshError(phase) == phase = "cached"

\* refreshAndCacheToken, lines 197-201: the throw of a refused refresh comes
\* before the assignment of line 204, so the token in memory stays.
TokenAfterRefusal_Cleared(held) == NullTok

TokenAfterRefusal(held) == held

\* refreshAndCacheToken, lines 197-201: a non-2xx answer throws; the caller at
\* 143-149 swallows it and goes on with the environment's credentials, the
\* caller at 170 fails.
RefreshFail(p, errorText) ==
    LET r == Logged(proc[p], Ev("refreshFail", errorText, proc[p].rtok, 400)) IN
    /\ proc[p].pc = "ia_refresh"
    /\ IF SwallowsRefreshError(r.phase)
       THEN SeedPath(p, r)
       ELSE /\ proc' = [proc EXCEPT ![p] =
                    [r EXCEPT !.pc = "ia_done", !.aerr = "auth",
                              !.amsg = AuthenticationFailed(
                                            TokenRefreshFailed(errorText))]]
            /\ accessToken' = TokenAfterRefusal(accessToken)
    /\ UNCHANGED <<unit, now, ticks, file, issued, env>>

\* cacheTokenToFile: Bun.write stores the record, or fails and is logged.
cacheTokenToFile_Dropped(tokenData, writeFails) == file

cacheTokenToFile(tokenData, writeFails) ==
    IF writeFails THEN file ELSE tokenData

\* Lines 261-264: the catch of cacheTokenToFile logs and does not re-throw
\* ("the token is still valid, just not cached").
cacheTokenToFileThrows_Rethrow(writeFails) == writeFails

cacheTokenToFileThrows(writeFails) == FALSE

IaWrite(p, writeFails) ==
    /\ proc[p].pc = "ia_write"
    /\ file' = cacheTokenToFile(proc[p].pend, writeFails)
    /\ proc' = [proc EXCEPT ![p] =
            [Logged(@, EvWith("write", IF writeFails THEN "failed" ELSE "ok",
                              proc[p].pend.at, 0, proc[p].pend))
                EXCEPT !.pc = "ia_done",
                       !.aerr = IF cacheTokenToFileThrows(writeFails)
                                THEN "auth" ELSE @,
                       !.amsg = IF cacheTokenToFileThrows(writeFails)
                                THEN AuthenticationFailed(<<WriteError>>) ELSE @]]
    /\ UNCHANGED <<unit, now, ticks, accessToken, issued, env>>

\* clearTokenCache: an existing file is overwritten with the empty string;
\* a storage error is logged and swallowed.
clearTokenCache_NoOp(clearFails) == file

clearTokenCache(clearFails) ==
    IF clearFails \/ file.kind = "absent" THEN file ELSE EmptyFile

\* getAccessToken
getAccessToken == accessToken

\* ------------------------------------------------------------ ensureValid as a call of its own
StartEnsureValid(p) ==
    /\ proc[p].op = "idle"
    /\ proc' = [proc EXCEPT ![p] =
            CallInitializeAuth([IdleProc EXCEPT !.op = "ensureValid"], "top")]
    /\ UNCHANGED <<unit, now, ticks, accessToken, file, issued, env>>

EnsureValidReturn(p) ==
    LET r == proc[p] IN
    /\ r.pc = "ia_done" /\ r.acont = "top"
    /\ proc' = [proc EXCEPT ![p] =
            [r EXCEPT !.pc = "done",
                      !.result = IF r.aerr = "none" THEN "ok" ELSE "AuthError"]]
    /\ UNCHANGED <<unit, now, ticks, accessToken, file, issued, env>>

\* ------------------------------------------------------------ callEndpoint
\* Statuses the Code Assist endpoint answers a one-shot call with.
EndpointStatuses == {200, 401, 500}
\* Texts a response may carry.
Bodies == {"bodyA", "bodyB"}

\* The promise of callEndpoint settles: the caller is the invoke operation
\* itself, or discoverProjectId inside a generate call.
CeFinish(r, res) ==
    IF r.op = "invoke"
    THEN [r EXCEPT !.pc = "done", !.result = res]
    ELSE [r EXCEPT !.pc = "dp_done", !.result = res]

StartInvoke(p) ==
    /\ proc[p].op = "idle"
    /\ proc' = [proc EXCEPT ![p] =
            CallInitializeAuth([IdleProc EXCEPT !.op = "invoke"], "ce_post")]
    /\ UNCHANGED <<unit, now, ticks, accessToken, file, issued, env>>

\* Lines 315-324: after initializeAuth the POST is sent with the token that is
\* in memory now; a failed initializeAuth rejects the call.
CePost(p) ==
    LET r == proc[p] IN
    /\ r.pc = "ia_done" /\ r.acont = "ce_post"
    /\ proc' = [proc EXCEPT ![p] =
            IF r.aerr = "none"
            THEN [Logged(r, Ev("post", "", getAccessToken, 0)) EXCEPT !.pc = "ce_wait"]
            ELSE CeFinish(r, "AuthError")]
    /\ UNCHANGED <<unit, now, ticks, accessToken, file, issued, env>>

\* `response.ok`
ResponseOk(status) == status \in 200..299

\* Line 327: `response.status === 401 && !isRetry`
ShouldReauth_Always(status, isRetry) == status = 401

ShouldReauth(status, isRetry) == status = 401 /\ ~isRetry

\* Lines 326-338: the answer of the endpoint.  An error carries the status
\* and the text of the response.
CeResponse(p, status, body) ==
    LET r == Logged(proc[p], Ev("resp", body, NullTok, status)) IN
    /\ proc[p].pc = "ce_wait"
    /\ IF ResponseOk(status)
       THEN /\ proc' = [proc EXCEPT ![p] = CeFinish(r, "ok")]
            /\ UNCHANGED accessToken
       ELSE IF ShouldReauth(status, r.ceRetry)
       THEN /\ accessToken' = NullTok
            /\ proc' = [proc EXCEPT ![p] = [r EXCEPT !.pc = "ce_clear"]]
       ELSE /\ proc' = [proc EXCEPT ![p] =
                    CeFinish([r EXCEPT !.status = status, !.body = body], "HttpError")]
            /\ UNCHANGED accessToken
    /\ UNCHANGED <<unit, now, ticks, file, issued, env>>

\* Lines 330-331: the file cache is cleared, then initializeAuth is entered.
CeClear(p, clearFails) ==
    /\ proc[p].pc = "ce_clear"
    /\ file' = clearTokenCache(clearFails)
    /\ proc' = [proc EXCEPT ![p] =
            CallInitializeAuth(Logged(@, Ev("clear", IF clearFails THEN "failed" ELSE "ok", NullTok, 0)), "ce_reauth")]
    /\ UNCHANGED <<unit, now, ticks, accessToken, issued, env>>

\* Line 332: `return this.callEndpoint(method, body, true)`, which starts with
\* initializeAuth again.
CeRetry(p) ==
    LET r == proc[p] IN
    /\ r.pc = "ia_done" /\ r.acont = "ce_reauth"
    /\ proc' = [proc EXCEPT ![p] =
            IF r.aerr = "none"
            THEN CallInitializeAuth(
                    [Logged(r, Ev("reauthOk", "", getAccessToken, 0))
                        EXCEPT !.ceRetry = TRUE], "ce_post")
            ELSE CeFinish(r, "AuthError")]
    /\ UNCHANGED <<unit, now, ticks, accessToken, file, issued, env>>

\* ------------------------------------------------------------ FallbackPolicy
\* (AutoModelSwitchingHelper)
AUTO_SWITCH_MODEL_MAP ==
    [m \in {"gemini-3-pro-preview", "gemini-2.5-pro"} |->
        IF m = "gemini-3-pro-preview" THEN "gemini-3-flash-preview"
        ELSE "gemini-2.5-flash"]

RATE_LIMIT_STATUS_CODES == {429, 503}

\* Property names every object literal inherits from Object.prototype; the
\* value found under "constructor" is the function Object.
ObjectPrototypeKeys == {"constructor"}
FunctionObject == "function Object() { [native code] }"
Undefined == "undefined"
Null == "null"

\* `obj[key]` on an object literal: own properties first, then the prototype.
PropertyGet(obj, key) ==
    IF key \in DOMAIN obj THEN obj[key]
    ELSE IF key \in ObjectPrototypeKeys THEN FunctionObject
    ELSE Undefined

\* `AUTO_SWITCH_MODEL_MAP[originalModel] || null`
getFallbackModel(originalModel) ==
    LET v == PropertyGet(AUTO_SWITCH_MODEL_MAP, originalModel) IN
    IF v = Undefined THEN Null ELSE v

\* `this.env.ENABLE_AUTO_MODEL_SWITCHING === "true"`
isEnabled == env.autoSwitch = "true"

isRateLimitStatus_Only429(status) == status = 429

isRateLimitStatus(status) == status \in RATE_LIMIT_STATUS_CODES

createSwitchNotification(originalModel, fallbackModel) ==
    <<"[Auto-switched from ", originalModel, " to ", fallbackModel,
      " due to rate limiting]\n\n">>

\* ------------------------------------------------------------ GeminiApiClient
\* Model ids a caller may ask for: one with a substitute, one without, and one
\* that names an inherited property of the fallback map.
ModelIds == {"gemini-2.5-pro", "gemini-2.5-flash", "constructor"}

\* Statuses the streaming endpoint answers with.
StreamStatuses == {200, 401, 429, 503, 500}

\* The body of the streaming request, as buildNativeStreamRequest returns it.
StreamRequest(modelId) ==
    [model |-> modelId, project |-> "project", request |-> "contents"]

\* `{ ...streamRequest, model: fallbackModel }`
WithModel(streamRequest, fallbackModel) ==
    [streamRequest EXCEPT !.model = fallbackModel]

\* JSON.stringify leaves out a property whose value is a function.
JsonStringify(streamRequest) ==
    IF streamRequest.model = FunctionObject
    THEN [streamRequest EXCEPT !.model = Undefined]
    ELSE streamRequest

\* The text part of a decoded event (texts are sequences of pieces).
EventText == <<"text">>

\* Decoded events of a response body: the JSON values the decoder yields.  Two
\* carry `response.candidates`, one has a response without candidates, and one
\* is the JSON value null.
JsonObject(properties) == [type |-> "object", properties |-> properties]
JsonNull == [type |-> "null", properties |-> <<>>]
CandidatesEvent ==
    JsonObject([response |-> [candidates |-> <<[content |-> [parts |-> <<EventText>>]]>>]])
MoreCandidatesEvent ==
    JsonObject([response |-> [candidates |-> <<[content |-> [parts |-> <<<<"more">>>>]]>>]])
EmptyResponseEvent == JsonObject([response |-> [usageMetadata |-> "usage"]])
\* Line 482, `jsonData.response?.candidates`: reading a property of null
\* throws a TypeError; a missing property is undefined.
ReadsCandidates(jsonData) ==
    IF jsonData.type = "null" THEN "TypeError"
    ELSE IF "response" \notin DOMAIN jsonData.properties THEN Undefined
    ELSE IF "candidates" \notin DOMAIN jsonData.properties.response THEN Undefined
    ELSE "candidates"

\* `response.body`: null, or a stream that will deliver `events`.
NullBody == [present |-> FALSE, events |-> <<>>]
ResponseBody(events) == [present |-> TRUE, events |-> events]

\* A chunk of the output sequence.
StreamChunk(parts, modelVersion) ==
    [candidates |-> <<[role |-> "model", parts |-> parts]>>,
     modelVersion |-> modelVersion]

\* One activation of performNativeStreamRequest.  `at` tells where it stands:
\* running its own request ("own"), or delegating with yield* to the
\* activation above it from inside its try block ("try") or from its catch
\* block ("catch").
\* `events` are the events its response body has still to deliver,
\* `timeoutId` and `idleTimer` are the ids of its timers (0: not set), and
\* `readStart` is the time its pending read of the stream was issued.
Frame(streamRequest, modelId, isRetry, startTime) ==
    [streamRequest |-> streamRequest, modelId |-> modelId, isRetry |-> isRetry,
     startTime |-> startTime, at |-> "own", events |-> <<>>,
     timeoutId |-> 0, idleTimer |-> 0, readStart |-> 0]

Top(r) == r.frames[Len(r.frames)]
Pop(r) == [r EXCEPT !.frames = SubSeq(@, 1, Len(@) - 1)]

\* The timers of a call that are pending: `kind` is "conn" (line 417) or
\* "idle" (line 87), `owner` the activation that set it.
Timer(id, kind, owner) == [id |-> id, kind |-> kind, owner |-> owner]

\* `clearTimeout(id)`: the timer, if it is still pending, is removed.
clearTimeout_Forgotten(timers, id) == timers

clearTimeout(timers, id) == {t \in timers : t.id # id}

\* `setTimeout` by the top activation: a new timer is pending.
SetTimeout(r, kind) ==
    [r EXCEPT !.timers = @ \cup {Timer(r.nextTimer, kind, Len(r.frames))},
              !.nextTimer = @ + 1]

\* `clearTimeout(timeoutId)` by the top activation (lines 431 and 511).
ClearConnectionTimer(r) ==
    [r EXCEPT !.timers = clearTimeout(@, Top(r).timeoutId)]

\* parseSSEStream, lines 86-95: the idle timer is armed and a read is issued.
StartRead(r) ==
    [SetTimeout(r, "idle") EXCEPT !.frames[Len(r.frames)].idleTimer = r.nextTimer,
                                   !.frames[Len(r.frames)].readStart = now,
                                   !.pc = "ps_body"]

\* parseSSEStream, lines 101-103: the read has settled, the idle timer is
\* cleared.
EndRead(r) ==
    [r EXCEPT !.timers = clearTimeout(@, Top(r).idleTimer)]

\* Hops of the retry machine, recorded with each request.
ViaFirst == "first"
ViaReauth == "reauth"
ViaFallback == "fallback"
ViaRetry == "retry"

\* Lines 416-429 of a new activation: the connection timer is armed and the
\* request is sent with the token that is in memory now.  The activation that
\* asked for it waits in `at`.
Spawn(r, at, streamRequest, modelId, isRetry, via) ==
    LET below == IF r.frames = <<>> THEN <<>>
                 ELSE [r.frames EXCEPT ![Len(r.frames)].at = at]
        r1 == [Logged(r, [ev |-> "req", m |-> via, t |-> getAccessToken,
                          s |-> IF isRetry THEN 1 ELSE 0,
                          body |-> JsonStringify(streamRequest)])
                EXCEPT !.frames = Append(below,
                            [Frame(streamRequest, modelId, isRetry, now)
                                EXCEPT !.timeoutId = r.nextTimer]),
                       !.pc = "ps_wait"]
    IN SetTimeout(r1, "conn")

\* Lines 513-516: is an error caught by a not-yet-retried activation retried?
ShouldRetry_EvenRetried(isRetry, name, duration) ==
    name = "AbortError" \/ duration < QUICK_FAIL_THRESHOLD_MS

ShouldRetry(isRetry, name, duration) ==
    ~isRetry /\ (name = "AbortError" \/ duration < QUICK_FAIL_THRESHOLD_MS)

\* Lines 510-524: an error reaches the catch block of the top activation.
\* Either the request is sent once more, or the error leaves the activation.
Catch(r, name) ==
    LET f == Top(r)
        r1 == ClearConnectionTimer(
                Logged(r, EvWith("fail", name, NullTok, IF f.isRetry THEN 1 ELSE 0,
                                 [duration |-> now - f.startTime,
                                  request |-> JsonStringify(f.streamRequest)])))
    IN
    IF ShouldRetry(f.isRetry, name, now - f.startTime)
    THEN Spawn(r1, "catch", f.streamRequest, f.modelId, TRUE, ViaRetry)
    ELSE [Pop(r1) EXCEPT !.pc = "ps_throw", !.perr = name]

StartGenerate(p, modelId) ==
    /\ proc[p].op = "idle"
    /\ proc' = [proc EXCEPT ![p] =
            CallInitializeAuth(
                [IdleProc EXCEPT !.op = "generate", !.modelId = modelId], "sc_start")]
    /\ UNCHANGED <<unit, now, ticks, accessToken, file, issued, env>>

\* streamContentNative, lines 150-151: initializeAuth has settled; the project
\* id comes from the environment or from a loadCodeAssist call.
ScAuthDone(p) ==
    LET r == proc[p] IN
    /\ r.pc = "ia_done" /\ r.acont = "sc_start"
    /\ proc' = [proc EXCEPT ![p] =
            IF r.aerr # "none"
            THEN [Logged(r, Ev("authErr", "", NullTok, 0))
                    EXCEPT !.pc = "done", !.result = "AuthError"]
            ELSE IF env.projectId = "set"
            THEN [r EXCEPT !.pc = "sc_send"]
            ELSE CallInitializeAuth([r EXCEPT !.ceRetry = FALSE], "ce_post")]
    /\ UNCHANGED <<unit, now, ticks, accessToken, file, issued, env>>

\* discoverProjectId, lines 51-69: any failure of the lookup is rethrown as
\* "Could not discover project ID".
DpDone(p, hasProject) ==
    LET r == proc[p] IN
    /\ r.pc = "dp_done"
    /\ proc' = [proc EXCEPT ![p] =
            IF r.result = "ok" /\ hasProject
            THEN [r EXCEPT !.pc = "sc_send", !.result = "none"]
            ELSE [r EXCEPT !.pc = "done", !.result = "DiscoverError"]]
    /\ UNCHANGED <<unit, now, ticks, accessToken, file, issued, env>>

\* Lines 153-154: the request is built and the first activation sends it.
ScSend(p) ==
    LET r == proc[p] IN
    /\ r.pc = "sc_send"
    /\ proc' = [proc EXCEPT ![p] =
            Spawn(r, "own", StreamRequest(r.modelId), r.modelId, FALSE, ViaFirst)]
    /\ UNCHANGED <<unit, now, ticks, accessToken, file, issued, env>>

\* Line 417: the connection timer of the top activation has fired.
ConnectionTimedOut(r) == now - Top(r).startTime >= CONNECTION_TIMEOUT_MS

\* Lines 421-435 and 477-479: the fetch settles with a status, with or without
\* a body; or (below) with a network failure, or aborted by the connection
\* timer.
PsResponse(p, status, body) ==
    LET r == ClearConnectionTimer(Logged(proc[p], Ev("status", "", NullTok, status))) IN
    /\ proc[p].pc = "ps_wait"
    /\ ~ConnectionTimedOut(proc[p])
    /\ proc' = [proc EXCEPT ![p] =
            IF ~ResponseOk(status) THEN [r EXCEPT !.pc = "ps_text", !.status = status]
            ELSE IF body.present
            THEN StartRead([r EXCEPT !.frames[Len(r.frames)].events = body.events])
            ELSE Catch(r, "Error")]
    /\ UNCHANGED <<unit, now, ticks, accessToken, file, issued, env>>

PsNetworkError(p) ==
    /\ proc[p].pc = "ps_wait"
    /\ ~ConnectionTimedOut(proc[p])
    /\ proc' = [proc EXCEPT ![p] = Catch(@, "TypeError")]
    /\ UNCHANGED <<unit, now, ticks, accessToken, file, issued, env>>

\* The timer has fired, so it is no longer pending.
PsAbort(p) ==
    /\ proc[p].pc = "ps_wait"
    /\ ConnectionTimedOut(proc[p])
    /\ proc' = [proc EXCEPT ![p] =
            Catch([@ EXCEPT !.timers = {t \in @ : t.id # Top(proc[p]).timeoutId}],
                  "AbortError")]
    /\ UNCHANGED <<unit, now, ticks, accessToken, file, issued, env>>

\* Lines 447-449: a rate-limit status of a not-yet-retried activation for a
\* model with a substitute, with switching enabled.
ShouldFallback_IgnoreRetry(status, isRetry, modelId) ==
    /\ isRateLimitStatus(status)
    /\ getFallbackModel(modelId) # Null
    /\ isEnabled

ShouldFallback(status, isRetry, modelId) ==
    /\ isRateLimitStatus(status)
    /\ ~isRetry
    /\ getFallbackModel(modelId) # Null
    /\ isEnabled

\* Lines 437-474: the non-2xx answer is dealt with.
PsDecide(p) ==
    LET r == proc[p]
        f == Top(r)
        fallbackModel == getFallbackModel(f.modelId)
        notice == StreamChunk(<<createSwitchNotification(f.modelId, fallbackModel)>>,
                              fallbackModel)
    IN
    /\ r.pc = "ps_text"
    /\ proc' = [proc EXCEPT ![p] =
            IF ShouldReauth(r.status, f.isRetry)
            THEN [r EXCEPT !.pc = "ps_clear"]
            ELSE IF ShouldFallback(r.status, f.isRetry, f.modelId)
            THEN [Logged(r, Ev("notice", fallbackModel, NullTok, 0))
                    EXCEPT !.out = Append(@, notice), !.pc = "ps_notice"]
            ELSE Catch(r, "Error")]
    /\ UNCHANGED <<unit, now, ticks, accessToken, file, issued, env>>

\* Lines 441-442: the file cache is cleared, then initializeAuth is entered.
PsClear(p, clearFails) ==
    /\ proc[p].pc = "ps_clear"
    /\ file' = clearTokenCache(clearFails)
    /\ proc' = [proc EXCEPT ![p] =
            CallInitializeAuth(Logged(@, Ev("clear", IF clearFails THEN "failed" ELSE "ok", NullTok, 0)), "ps_reauth")]
    /\ UNCHANGED <<unit, now, ticks, accessToken, issued, env>>

\* Line 443: after the re-authentication the same request is sent by a new
\* activation; a failed re-authentication throws inside the try block.
PsReauthDone(p) ==
    LET r == proc[p]
        f == Top(r)
    IN
    /\ r.pc = "ia_done" /\ r.acont = "ps_reauth"
    /\ proc' = [proc EXCEPT ![p] =
            IF r.aerr = "none"
            THEN Spawn(Logged(r, Ev("reauthOk", "", getAccessToken, 0)),
                       "try", f.streamRequest, f.modelId, TRUE, ViaReauth)
            ELSE Catch(Logged(r, Ev("authErr", "", NullTok, 0)), "AuthError")]
    /\ UNCHANGED <<unit, now, ticks, accessToken, file, issued, env>>

\* The consumer asks for the next chunk: the generator goes on after its yield.
\* After the notice, lines 468-469: the request goes to the substitute model.
ConsumerNext(p) ==
    LET r == proc[p]
        f == Top(r)
        fallbackModel == getFallbackModel(f.modelId)
    IN
    /\ r.pc \in {"ps_notice", "ps_yield"}
    /\ proc' = [proc EXCEPT ![p] =
            IF r.pc = "ps_notice"
            THEN Spawn(r, "try", WithModel(f.streamRequest, fallbackModel),
                       fallbackModel, TRUE, ViaFallback)
            ELSE StartRead(r)]
    /\ UNCHANGED <<unit, now, ticks, accessToken, file, issued, env>>

\* The consumer ends the sequence early: every activation is left through its
\* finally blocks; the one of parseSSEStream (lines 137-140) clears the idle
\* timer of the activation that reads the stream.
ConsumerReturn(p) ==
    /\ proc[p].pc \in {"ps_notice", "ps_yield"}
    /\ proc' = [proc EXCEPT ![p] =
            [@ EXCEPT !.pc = "done", !.result = "returned", !.frames = <<>>,
                      !.timers = IF proc[p].pc = "ps_yield"
                                 THEN clearTimeout(@, Top(proc[p]).idleTimer)
                                 ELSE @]]
    /\ UNCHANGED <<unit, now, ticks, accessToken, file, issued, env>>

\* Lines 86-91: the idle timer of the pending read has fired.
IdleTimedOut(r) == now - Top(r).readStart >= IDLE_TIMEOUT_MS

\* Lines 481-508: the pending read delivers the next event of the body.  An
\* event with candidates is yielded as a chunk that carries the model id of
\* the activation; for any other event the loop goes on to the next read.
PsEvent(p) ==
    LET r == EndRead(proc[p])
        f == Top(r)
        jsonData == Head(f.events)
        rest == [r EXCEPT !.frames[Len(r.frames)].events = Tail(@)]
    IN
    /\ proc[p].pc = "ps_body"
    /\ f.events # <<>>
    /\ ~IdleTimedOut(proc[p])
    /\ proc' = [proc EXCEPT ![p] =
            IF ReadsCandidates(jsonData) = "TypeError"
            THEN Catch(Logged(rest, EvWith("event", "threw", NullTok, 0, jsonData)),
                       "TypeError")
            ELSE IF ReadsCandidates(jsonData) = Undefined
            THEN StartRead(Logged(rest, EvWith("event", "skipped", NullTok, 0, jsonData)))
            ELSE [Logged(rest, EvWith("chunk", f.modelId, NullTok, 0, jsonData))
                    EXCEPT !.out = Append(@, StreamChunk(jsonData.properties.response.candidates[1].content.parts,
                                                         f.modelId)),
                           !.pc = "ps_yield"]]
    /\ UNCHANGED <<unit, now, ticks, accessToken, file, issued, env>>

\* Lines 107-116 and 137-140: the pending read reports the end of the stream;
\* every activation returns.
PsEnd(p) ==
    /\ proc[p].pc = "ps_body"
    /\ Top(proc[p]).events = <<>>
    /\ ~IdleTimedOut(proc[p])
    /\ proc' = [proc EXCEPT ![p] =
            [EndRead(@) EXCEPT !.pc = "done", !.result = "complete", !.frames = <<>>]]
    /\ UNCHANGED <<unit, now, ticks, accessToken, file, issued, env>>

\* Lines 96-103: the pending read fails (network failure).
PsStreamError(p) ==
    /\ proc[p].pc = "ps_body"
    /\ ~IdleTimedOut(proc[p])
    /\ proc' = [proc EXCEPT ![p] = Catch(EndRead(@), "Error")]
    /\ UNCHANGED <<unit, now, ticks, accessToken, file, issued, env>>

\* How a pending read settles when `reader.cancel("IdleTimeout")` (line 89) is
\* called.  The Streams standard closes the stream, so the read resolves with
\* `done: true`; lines 96-99 are written for a read that rejects with the
\* reason.
CancelOutcomes == {"closed", "rejected"}

\* Lines 86-116: no bytes for IDLE_TIMEOUT_MS.  The idle timer fires and
\* cancels the reader.  A read that resolves with `done` takes the path of the
\* end of the stream (lines 107-116); one that rejects with "IdleTimeout" is
\* rethrown as "Stream idle timeout" (lines 97-99).
PsIdleTimeout(p, outcome) ==
    LET r0 == proc[p]
        fired == [r0 EXCEPT !.timers = {t \in @ : t.id # Top(r0).idleTimer}]
        r == EndRead(Logged(fired, Ev("idle", outcome, NullTok, 0)))
    IN
    /\ r0.pc = "ps_body"
    /\ IdleTimedOut(r0)
    /\ proc' = [proc EXCEPT ![p] =
            IF outcome = "closed"
            THEN [r EXCEPT !.pc = "done", !.result = "complete", !.frames = <<>>]
            ELSE Catch(r, "Error")]
    /\ UNCHANGED <<unit, now, ticks, accessToken, file, issued, env>>

\* An error has left an activation.  It reaches the consumer, or the
\* activation below: inside its try block (its catch block runs) or inside
\* its catch block (the error goes on).
PsPropagate(p) ==
    LET r == proc[p] IN
    /\ r.pc = "ps_throw"
    /\ proc' = [proc EXCEPT ![p] =
            IF r.frames = <<>>
            THEN [r EXCEPT !.pc = "done", !.result = r.perr]
            ELSE IF Top(r).at = "try"
            THEN Catch(r, r.perr)
            ELSE Pop(r)]
    /\ UNCHANGED <<unit, now, ticks, accessToken, file, issued, env>>

\* ------------------------------------------------------------ time
\* Positions where a call waits for the network.
NetworkWaits == {"ia_refresh", "ce_wait", "ps_wait", "ps_body"}

\* Time passes while a call waits for the network, and between calls.
Tick(d) ==
    /\ ticks < MaxTicks
    /\ \/ \E p \in Procs : proc[p].pc \in NetworkWaits
       \/ /\ \E p \in Procs : proc[p].pc = "done"
          /\ \E p \in Procs : proc[p].pc = "idle"
    /\ now' = now + d
    /\ ticks' = ticks + 1
    /\ UNCHANGED <<unit, accessToken, file, issued, env, proc>>

\* ------------------------------------------------------------ initial states
SeedAT == Tok("seed", 0)
SeedRT == Tok("rtSeed", 0)
CacheAT == Tok("cache", 0)
CacheRT == Tok("rtCache", 0)

\* GCP_SERVICE_ACCOUNT: not set, not JSON, or credentials fresh or stale.
Seeds ==
    {FileRec("unset", NullTok, NoRT, 0), FileRec("garbage", NullTok, NoRT, 0)}
    \cup {FileRec("creds", SeedAT, SeedRT, e) : e \in {FreshExpiry, StaleExpiry}}

\* What an earlier run of the server may have left in the token file.
InitFiles ==
    {NoFile, EmptyFile}
    \cup {CachedTokenData(CacheAT, e, rt) :
            e \in {FreshExpiry, StaleExpiry}, rt \in {NoRT, CacheRT}}
    \cup {CachedTokenData(SeedAT, FreshExpiry, SeedRT)}

MkEnv(seed, sw, pid) == [seed |-> seed, autoSwitch |-> sw, projectId |-> pid]

InitCommon ==
    /\ now = 0
    /\ ticks = 0
    /\ accessToken = NullTok
    /\ issued = 0
    /\ file \in InitFiles
    /\ proc = [p \in Procs |-> IdleProc]
    /\ unit = NoUnit

\* Whether a storage operation may fail: `StorageFaults` where failures of
\* the store are under study, else the store works.
StorageFaults == BOOLEAN
NoFaults == {FALSE}

AuthSteps(p, faults, newRTs, errorTexts) ==
    \/ \E readFails \in faults : IaRead(p, readFails)
    \/ IaCheck(p)
    \/ \E newRT \in newRTs, expires_in \in ExpiresInChoices :
            RefreshOk(p, newRT, expires_in)
    \/ \E errorText \in errorTexts : RefreshFail(p, errorText)
    \/ \E writeFails \in faults : IaWrite(p, writeFails)

InvokeSteps(p, faults, bodies) ==
    \/ CePost(p)
    \/ \E status \in EndpointStatuses, body \in bodies : CeResponse(p, status, body)
    \/ \E clearFails \in faults : CeClear(p, clearFails)
    \/ CeRetry(p)

\* ------------------------------------------------------------ SpecAuth:
\* concurrent calls of ensureValid on one AuthManager
InitAuth ==
    /\ InitCommon
    /\ env \in {MkEnv(s, "true", "set") : s \in Seeds}

NextAuth ==
    \/ \E p \in Procs :
        \/ StartEnsureValid(p)
        \/ EnsureValidReturn(p)
        \/ AuthSteps(p, NoFaults, BOOLEAN, {"bodyA"})
    \/ Tick(TOKEN_BUFFER_TIME)

SpecAuth == InitAuth /\ [][NextAuth]_vars

\* ------------------------------------------------------------ SpecInvoke:
\* one call of invoke (callEndpoint)
InitInvoke ==
    /\ InitCommon
    /\ env \in {MkEnv(s, "true", "set") : s \in Seeds}

NextInvoke ==
    \/ StartInvoke(1)
    \/ AuthSteps(1, StorageFaults, {FALSE}, {"bodyA"})
    \/ InvokeSteps(1, StorageFaults, Bodies)
    \/ Tick(TOKEN_BUFFER_TIME)

SpecInvoke == InitInvoke /\ [][NextInvoke]_vars

\* ------------------------------------------------------------ SpecStore:
\* calls of ensureValid one after the other, on a store that may fail and
\* may hold anything
Quiescent == \A q \in Procs : proc[q].pc \in {"idle", "done"}

\* The callers of this specification: a first call, and one that follows it.
StoreCallers == {1, 2}

\* A caller that enters ensureValid while no other call is in progress.  The
\* callers are alike, so they take their turns in the order of their numbers.
StartEnsureValidAlone(p) ==
    /\ p \in StoreCallers
    /\ Quiescent
    /\ \A q \in Procs : q < p => proc[q].pc = "done"
    /\ StartEnsureValid(p)

InitStore ==
    /\ now = 0
    /\ ticks = 0
    /\ accessToken = NullTok
    /\ issued = 0
    /\ file \in InitFiles \cup {GarbageFile}
    /\ proc = [p \in Procs |-> IdleProc]
    /\ unit = NoUnit
    /\ env \in {MkEnv(s, "true", "set") : s \in Seeds}

NextStore ==
    \/ \E p \in Procs :
        \/ StartEnsureValidAlone(p)
        \/ EnsureValidReturn(p)
        \/ AuthSteps(p, StorageFaults, BOOLEAN, Bodies)
    \/ Tick(TOKEN_BUFFER_TIME)

SpecStore == InitStore /\ [][NextStore]_vars

\* ------------------------------------------------------------ histories
EventsOf(p, e) == SelectSeq(proc[p].log, LAMBDA x : x.ev = e)
\* Index of the n-th event `e` in the history of p (0 if there is none).
IndexOf(p, e, n) ==
    LET log == proc[p].log
        all == {i \in 1..Len(log) : log[i].ev = e}
    IN IF Cardinality(all) < n THEN 0
       ELSE CHOOSE i \in all : Cardinality({j \in all : j <= i}) = n

\* ------------------------------------------------------------ C1
\* C1 (as claimed): refresh is single-flight: at no time are two POSTs to the
\* refresh endpoint in flight for one manager.
RefreshInFlight == {p \in Procs : proc[p].pc = "ia_refresh"}

C1_SingleFlight == Cardinality(RefreshInFlight) <= 1

\* ------------------------------------------------------------ C9
Posts(p) == EventsOf(p, "post")
Resps(p) == EventsOf(p, "resp")
InvokeDone(p) == proc[p].op = "invoke" /\ proc[p].pc = "done"

\* C9 (amended): one invoke sends at most two POSTs.  A 2xx answer ends the
\* call with success.  A first 401 is followed by exactly one retry, sent
\* after a successful re-authentication, unless the re-authentication or the
\* ensureValid() that opens the retried call fails: then the call ends with
\* the authentication error and no retry.  A 401 on the retry, and any other
\* non-2xx status, ends the call at once with an error that carries that
\* status and the response text.
C9_AtMostOneRetry ==
    \A p \in Procs :
        LET r == proc[p]
            posts == Posts(p)
            resps == Resps(p)
            last == resps[Len(resps)]
        IN
        r.op = "invoke" =>
            /\ Len(posts) <= 2
            /\ Len(resps) <= Len(posts)
            /\ Len(resps) = 2 => resps[1].s = 401
            /\ (Len(resps) >= 1 /\ ~(Len(resps) = 1 /\ last.s = 401)) =>
                /\ r.pc = "done"
                /\ Len(posts) = Len(resps)
                /\ IF ResponseOk(last.s)
                   THEN r.result = "ok"
                   ELSE /\ r.result = "HttpError"
                        /\ r.status = last.s
                        /\ r.body = last.m
            /\ (r.pc = "done" /\ Len(resps) = 1 /\ resps[1].s = 401) =>
                /\ r.result = "AuthError"
                /\ Len(posts) = 1
            /\ Len(posts) = 2 =>
                /\ IndexOf(p, "resp", 1) < IndexOf(p, "reauthOk", 1)
                /\ IndexOf(p, "reauthOk", 1) < IndexOf(p, "post", 2)

\* Witness of C9: a call whose first POST and whose retry were both answered 401.
C9_Witness ==
    /\ InvokeDone(1)
    /\ Len(Resps(1)) = 2
    /\ Resps(1)[2].s = 401
    /\ proc[1].result = "HttpError"

\* C9 (as claimed): a first 401 always leads to exactly one retry.
C9_Original ==
    \A p \in Procs :
        (InvokeDone(p) /\ Len(Resps(p)) >= 1 /\ Resps(p)[1].s = 401)
            => Len(Posts(p)) = 2

\* ------------------------------------------------------------ C10
\* C10 (as claimed): in invoke, between a first 401 and the retry a POST to
\* the refresh endpoint is made and answered, so the retry does not carry the
\* access token that was just rejected.
C10_RetryForcesRefresh ==
    \A p \in Procs :
        (proc[p].op = "invoke" /\ Len(Posts(p)) = 2) =>
            /\ \E i \in IndexOf(p, "resp", 1)..IndexOf(p, "post", 2) :
                    proc[p].log[i].ev = "refreshOk"
            /\ Posts(p)[2].t # Posts(p)[1].t

\* ------------------------------------------------------------ SpecStream:
\* one generate call (streamContentNative) and its consumer
\* Response bodies: none, or up to MaxChunks events with candidates.
StreamBodies ==
    {NullBody}
    \cup {ResponseBody(events) :
            events \in UNION {[1..n -> {CandidatesEvent}] : n \in 0..MaxChunks}}

StreamSteps(p, faults) ==
    \/ ScAuthDone(p)
    \/ \E hasProject \in BOOLEAN : DpDone(p, hasProject)
    \/ ScSend(p)
    \/ \E status \in StreamStatuses, body \in StreamBodies : PsResponse(p, status, body)
    \/ PsNetworkError(p)
    \/ PsAbort(p)
    \/ PsDecide(p)
    \/ \E clearFails \in faults : PsClear(p, clearFails)
    \/ PsReauthDone(p)
    \/ ConsumerNext(p)
    \/ ConsumerReturn(p)
    \/ PsEvent(p)
    \/ \E outcome \in CancelOutcomes : PsIdleTimeout(p, outcome)
    \/ PsEnd(p)
    \/ PsStreamError(p)
    \/ PsPropagate(p)

\* The seed of a generate call: not set, not JSON, or credentials that are
\* fresh when the call starts and go stale while it waits for the network.
StreamSeeds ==
    {s \in Seeds : s.kind = "creds" => s.exp = FreshExpiry}

InitStream ==
    /\ InitCommon
    /\ file = NoFile
    /\ env \in {MkEnv(s, sw, pid) :
                    s \in StreamSeeds, sw \in {"true", "TRUE"},
                    pid \in {"set", "unset"}}

NextStream ==
    \/ \E modelId \in ModelIds : StartGenerate(1, modelId)
    \/ AuthSteps(1, NoFaults, {FALSE}, {"bodyA"})
    \/ InvokeSteps(1, NoFaults, {"bodyA"})
    \/ StreamSteps(1, NoFaults)
    \/ Tick(QUICK_FAIL_THRESHOLD_MS)
    \/ Tick(CONNECTION_TIMEOUT_MS)

SpecStream == InitStream /\ [][NextStream]_vars

\* ------------------------------------------------------------ SpecEvents:
\* one generate call whose requests are answered 200 with a body of up to
\* MaxEvents decoded events of every kind
EventBodies ==
    {ResponseBody(events) :
        events \in UNION {[1..n -> {CandidatesEvent, MoreCandidatesEvent,
                                    EmptyResponseEvent, JsonNull}] :
                            n \in 0..MaxEvents}}

InitEvents ==
    /\ InitCommon
    /\ file = NoFile
    /\ env = MkEnv(FileRec("creds", SeedAT, SeedRT, FreshExpiry), "TRUE", "set")

NextEvents ==
    \/ StartGenerate(1, "gemini-2.5-flash")
    \/ IaRead(1, FALSE)
    \/ IaCheck(1)
    \/ IaWrite(1, FALSE)
    \/ ScAuthDone(1)
    \/ ScSend(1)
    \/ \E body \in EventBodies : PsResponse(1, 200, body)
    \/ ConsumerNext(1)
    \/ ConsumerReturn(1)
    \/ PsEvent(1)
    \/ PsEnd(1)
    \/ PsStreamError(1)
    \/ PsPropagate(1)
    \/ Tick(QUICK_FAIL_THRESHOLD_MS)

SpecEvents == InitEvents /\ [][NextEvents]_vars

\* ------------------------------------------------------------ histories of a generate call
Generating(p) == proc[p].op = "generate"
Log(p) == proc[p].log
Idx(p) == 1..Len(proc[p].log)
\* The request that opened the attempt an event at index i belongs to.
AttemptOf(p, i) ==
    LET reqs == {j \in 1..i : Log(p)[j].ev = "req"}
    IN Log(p)[CHOOSE j \in reqs : \A k \in reqs : k <= j]
\* The answer to the first, not-yet-retried attempt of the call.
FirstStatus(p) == IndexOf(p, "status", 1)
\* The first attempt has been answered with `statuses` and the answer has been
\* dealt with (lines 437-474 have run).
FirstAnswered(p, statuses) ==
    /\ Generating(p)
    /\ FirstStatus(p) > 0
    /\ AttemptOf(p, FirstStatus(p)).m = ViaFirst
    /\ Log(p)[FirstStatus(p)].s \in statuses
    /\ ~(proc[p].pc = "ps_text" /\ Len(Log(p)) = FirstStatus(p))

\* ------------------------------------------------------------ C2
\* C2 (as claimed): once an attempt that is marked retried has failed, no
\* further streaming request is issued in that generate call.
C2_RetriedFailureIsTerminal ==
    \A p \in Procs : \A i, j \in Idx(p) :
        (Generating(p) /\ i < j /\ Log(p)[i].ev = "fail" /\ Log(p)[i].s = 1)
            => Log(p)[j].ev # "req"

\* ------------------------------------------------------------ C3
NoticeChunk(A, B) == StreamChunk(<<createSwitchNotification(A, B)>>, B)

C3_Applies(p) ==
    /\ FirstAnswered(p, {429, 503})
    /\ env.autoSwitch = "true"
    /\ proc[p].modelId \in DOMAIN AUTO_SWITCH_MODEL_MAP

\* C3: when the first attempt for model A is answered 429 or 503, switching
\* is enabled and A maps to B, the output holds exactly one notice chunk (one
\* candidate, role "model", one text part with the announcement, modelVersion
\* B), it is the first chunk of the output, every request against B is sent
\* after it with the original body except for the model id, and every chunk
\* of the attempt against B follows it.
C3_NoticeThenSubstitute ==
    \A p \in Procs :
        C3_Applies(p) =>
            LET A == proc[p].modelId
                B == AUTO_SWITCH_MODEL_MAP[A]
                n == FirstStatus(p) + 1
                out == proc[p].out
            IN
            /\ Log(p)[n].ev = "notice"
            /\ Log(p)[n].m = B
            /\ Len(EventsOf(p, "notice")) = 1
            /\ out[1] = NoticeChunk(A, B)
            /\ out[1].candidates[1].role = "model"
            /\ Len(out[1].candidates) = 1
            /\ Len(out[1].candidates[1].parts) = 1
            /\ \A k \in 2..Len(out) : out[k] # NoticeChunk(A, B)
            /\ \A j \in Idx(p) :
                (Log(p)[j].ev = "req" /\ Log(p)[j].body.model = B) =>
                    /\ j > n
                    /\ Log(p)[j].body = [StreamRequest(A) EXCEPT !.model = B]
            /\ \A j \in Idx(p) :
                (Log(p)[j].ev = "chunk" /\ Log(p)[j].m = B) => j > n
            /\ (Len(Log(p)) > n) =>
                /\ Log(p)[n + 1].ev = "req"
                /\ Log(p)[n + 1].m = ViaFallback
                /\ Log(p)[n + 1].body.model = B

\* Witness of C3: after a 503 for a mapped model the notice and a chunk of
\* the substitute model have been delivered.
C3_Witness ==
    /\ C3_Applies(1)
    /\ Log(1)[FirstStatus(1)].s = 503
    /\ Len(proc[1].out) = 2
    /\ proc[1].out[2].modelVersion = AUTO_SWITCH_MODEL_MAP[proc[1].modelId]

\* ------------------------------------------------------------ C4
\* C4 (as claimed): every chunk that follows the notice chunk carries the
\* substitute model as modelVersion.
C4_OnlySubstituteAfterNotice ==
    \A p \in Procs : \A i, j \in Idx(p) :
        (Generating(p) /\ i < j /\ Log(p)[i].ev = "notice" /\ Log(p)[j].ev = "chunk")
            => Log(p)[j].m = Log(p)[i].m

\* ------------------------------------------------------------ C5
ReqsVia(p, via) ==
    {j \in Idx(p) : Log(p)[j].ev = "req" /\ Log(p)[j].m = via}

\* C5: in one generate call there is at most one request sent after a 401
\* re-authentication, at most one sent to a substitute model (and at most one
\* notice chunk), and at most one unmodified retry; a notice only ever answers
\* a rate-limit status of an attempt that is not marked retried.
C5_OneHopOfEachKind ==
    \A p \in Procs :
        Generating(p) =>
            /\ Cardinality(ReqsVia(p, ViaFirst)) <= 1
            /\ Cardinality(ReqsVia(p, ViaReauth)) <= 1
            /\ Cardinality(ReqsVia(p, ViaFallback)) <= 1
            /\ Cardinality(ReqsVia(p, ViaRetry)) <= 1
            /\ Len(EventsOf(p, "notice")) <= 1
            /\ \A j \in Idx(p) :
                /\ (Log(p)[j].ev = "notice") =>
                    /\ Log(p)[j - 1].ev = "status"
                    /\ isRateLimitStatus(Log(p)[j - 1].s)
                    /\ AttemptOf(p, j).s = 0
                /\ (Log(p)[j].ev = "req" /\ Log(p)[j].m = ViaFallback) =>
                    Log(p)[j - 1].ev = "notice"
                /\ (Log(p)[j].ev = "req" /\ Log(p)[j].m # ViaFirst) =>
                    Log(p)[j].s = 1

\* Witness of C5: a retried attempt was answered 429 and the call is over.
C5_Witness ==
    /\ Generating(1)
    /\ proc[1].pc = "done"
    /\ \E j \in Idx(1) :
        /\ Log(1)[j].ev = "status"
        /\ Log(1)[j].s = 429
        /\ AttemptOf(1, j).s = 1
        /\ AttemptOf(1, j).m = ViaReauth

\* ------------------------------------------------------------ C6
\* C6 (as claimed): a notice chunk, or a request with a model id other than
\* the one asked for, occurs only if the first attempt was answered 429 or
\* 503, ENABLE_AUTO_MODEL_SWITCHING is "true" and the model asked for has an
\* entry in the fallback map.
C6_SubstitutionOnlyIfConfigured ==
    \A p \in Procs :
        (/\ Generating(p)
         /\ \/ EventsOf(p, "notice") # <<>>
            \/ \E j \in Idx(p) :
                /\ Log(p)[j].ev = "req"
                /\ Log(p)[j].body.model # proc[p].modelId)
        => /\ FirstAnswered(p, {429, 503})
           /\ env.autoSwitch = "true"
           /\ proc[p].modelId \in DOMAIN AUTO_SWITCH_MODEL_MAP

\* ------------------------------------------------------------ C7
\* C7 (as claimed): after a 401 for the first attempt, the cache is cleared,
\* then ensureValid() completes, then exactly one new request is sent, with
\* the same body and the token current after the re-authentication, and no
\* chunk is yielded between the 401 and that request.
C7_ReauthThenOneRetry ==
    \A p \in Procs :
        FirstAnswered(p, {401}) =>
            LET i == FirstStatus(p)
                later == {j \in Idx(p) : j > i /\ Log(p)[j].ev = "req"}
            IN
            /\ Len(Log(p)) > i => Log(p)[i + 1].ev = "clear"
            /\ Cardinality(later) <= 1
            /\ \A j \in later :
                /\ Log(p)[j - 1].ev = "reauthOk"
                /\ Log(p)[j].t = Log(p)[j - 1].t
                /\ Log(p)[j].body = AttemptOf(p, i).body
                /\ \A k \in (i + 1)..(j - 1) : Log(p)[k].ev # "chunk"

\* ------------------------------------------------------------ C8
\* C8 (as claimed): after ensureValid() has failed in a generate call, no
\* streaming request is issued and the call ends with the authentication error.
C8_AuthErrorIsFatal ==
    \A p \in Procs :
        (Generating(p) /\ EventsOf(p, "authErr") # <<>>) =>
            /\ \A j \in Idx(p) :
                j > IndexOf(p, "authErr", 1) => Log(p)[j].ev # "req"
            /\ proc[p].pc = "done" => proc[p].result = "AuthError"

\* ------------------------------------------------------------ histories of an ensureValid call
EnsureValidCall(p) == proc[p].op = "ensureValid"
Returned(p) == EnsureValidCall(p) /\ proc[p].pc = "done"
\* The call has looked at what getCached gave it (line 131).
Checked(p) == EnsureValidCall(p) /\ EventsOf(p, "check") # <<>>
\* What getCached returned to the call, and Date.now() when it was examined.
Cached(p) == EventsOf(p, "check")[1].body
CheckedAt(p) == EventsOf(p, "check")[1].s
\* `expiry - now > bufferWindow` for a credential and an instant.
Fresh(c, t) == c.kind \in {"record", "creds"} /\ c.exp - t > TOKEN_BUFFER_TIME
CachedFresh(p) == Checked(p) /\ Fresh(Cached(p), CheckedAt(p))
RefreshReqs(p) == EventsOf(p, "refreshReq")
Writes(p) == EventsOf(p, "write")
Adopts(p) == EventsOf(p, "adopt")

\* ------------------------------------------------------------ C11
\* C11: when the credential getCached returns has expiry - now > bufferWindow,
\* the ensureValid() call sends no request to the refresh endpoint and writes
\* nothing to the durable store.
C11_FreshCacheNoRefreshNoWrite ==
    \A p \in Procs :
        CachedFresh(p) =>
            /\ RefreshReqs(p) = <<>>
            /\ Writes(p) = <<>>
            /\ proc[p].pc \in {"ia_done", "done"}
            /\ proc[p].pend = NoFile

\* Witness of C11: a call that found a fresh cached credential has returned and
\* the store still holds that credential.
C11_Witness ==
    /\ Returned(1)
    /\ CachedFresh(1)
    /\ file = Cached(1)

\* ------------------------------------------------------------ C12
\* C12 (amended): when GCP_SERVICE_ACCOUNT is set, to credentials that are
\* fresh or expired or to text that is not JSON, and getCached returns a
\* credential with expiry - now > bufferWindow, ensureValid() adopts the access
\* token of that credential as the bearer token and returns without error.
\* When GCP_SERVICE_ACCOUNT is not set, ensureValid() fails before the cache is
\* consulted and adopts nothing.
C12_CacheFirstIfSeedConfigured ==
    \A p \in Procs :
        EnsureValidCall(p) =>
            /\ env.seed.kind = "unset" =>
                /\ ~Checked(p)
                /\ Adopts(p) = <<>>
                /\ proc[p].aerr = "env"
                /\ proc[p].amsg = <<EnvNotSet>>
                /\ proc[p].pc = "done" => proc[p].result = "AuthError"
            /\ (env.seed.kind # "unset" /\ CachedFresh(p)) =>
                /\ Len(Adopts(p)) = 1
                /\ Adopts(p)[1].m = "cached"
                /\ Adopts(p)[1].t = Cached(p).at
                /\ IndexOf(p, "adopt", 1) = IndexOf(p, "check", 1) + 1
                /\ proc[p].aerr = "none"
                /\ proc[p].pc = "ia_done" => getAccessToken = Cached(p).at
                /\ proc[p].pc = "done" => proc[p].result = "ok"

\* Witness of C12: the seed is not JSON, and the call has returned without
\* error with the token of the fresh cached credential.
C12_Witness ==
    /\ env.seed.kind = "garbage"
    /\ Returned(1)
    /\ CachedFresh(1)
    /\ proc[1].result = "ok"
    /\ getAccessToken = Cached(1).at

\* The store held a credential with expiry - now > bufferWindow throughout
\* the call of p: the one the call was given, or, if the call never read the
\* store, the one that is there and that no call has ever replaced.
StoreHeldFresh(p) ==
    IF Checked(p) THEN CachedFresh(p)
    ELSE /\ \A q \in Procs : Writes(q) = <<>>
         /\ Fresh(file, now)

\* C12 (as claimed): whenever the store holds a credential with
\* expiry - now > bufferWindow, ensureValid() returns without error, also when
\* the seed credential is not configured.
C12_Original ==
    \A p \in Procs :
        (Returned(p) /\ StoreHeldFresh(p)) => proc[p].result = "ok"

\* ------------------------------------------------------------ C13
\* getCached returned a credential with expiry - now <= bufferWindow that
\* carries a refresh token.
CachedStaleRefreshable(p) ==
    /\ Checked(p)
    /\ Cached(p).kind = "record"
    /\ ~Fresh(Cached(p), CheckedAt(p))
    /\ Cached(p).rt # NoRT

\* The credential refreshAndCacheToken builds from the answer `resp` to a
\* request made with refresh token `rt`: expiry = time of the answer +
\* expires_in seconds, the returned refresh token if there is one, else `rt`.
Refreshed(resp, rt) ==
    CachedTokenData(resp.access_token,
                    resp.date + resp.expires_in * 1000,
                    IF resp.refresh_token # NoRT THEN resp.refresh_token ELSE rt)

\* C13 (amended): for a cached credential with expiry - now <= bufferWindow
\* that carries a refresh token, one ensureValid() call sends one POST with
\* the cached refresh token, and a second POST, with the seed's refresh token,
\* only after the first was refused.  When the first POST succeeds there is
\* no other, the call returns without error, and when it returns the store
\* holds the resulting credential if the write succeeded and does not hold it
\* if the write failed.
C13_StaleCacheRefreshes ==
    \A p \in Procs :
        CachedStaleRefreshable(p) =>
            LET i == IndexOf(p, "refreshReq", 1) IN
            /\ Len(RefreshReqs(p)) \in {1, 2}
            /\ i = IndexOf(p, "check", 1) + 1
            /\ RefreshReqs(p)[1].t = Cached(p).rt
            /\ Len(RefreshReqs(p)) = 2 =>
                /\ Log(p)[i + 1].ev = "refreshFail"
                /\ Log(p)[i + 2].ev = "refreshReq"
                /\ RefreshReqs(p)[2].t = env.seed.rt
            /\ (Len(Log(p)) > i /\ Log(p)[i + 1].ev = "refreshOk") =>
                /\ Len(RefreshReqs(p)) = 1
                /\ proc[p].aerr = "none"
                /\ proc[p].pc \in {"ia_write", "ia_done", "done"}
                /\ proc[p].pend = Refreshed(Log(p)[i + 1].body, Cached(p).rt)
                /\ proc[p].pc = "done" => proc[p].result = "ok"
                /\ proc[p].pc = "ia_done" =>
                    /\ Len(Writes(p)) = 1
                    /\ Writes(p)[1].body = proc[p].pend
                    /\ (Writes(p)[1].m = "ok") <=> (file = proc[p].pend)

\* Witness of C13: a stale cached credential was refreshed with one POST and
\* the call has returned with the new credential in the store.
C13_Witness ==
    /\ Returned(1)
    /\ CachedStaleRefreshable(1)
    /\ Len(RefreshReqs(1)) = 1
    /\ proc[1].result = "ok"
    /\ file = proc[1].pend
    /\ file.at = getAccessToken

\* C13 (as claimed): exactly one POST, and at the return of ensureValid() the
\* store holds the credential the call ended up with.
C13_Original ==
    \A p \in Procs :
        (CachedStaleRefreshable(p) /\ proc[p].pc = "ia_done") =>
            /\ Len(RefreshReqs(p)) = 1
            /\ file.kind = "record"
            /\ file.at = getAccessToken

\* ------------------------------------------------------------ C14
\* The refresh with the cached refresh token was refused.
CachedRefreshFailed(p) ==
    /\ CachedStaleRefreshable(p)
    /\ Len(Log(p)) > IndexOf(p, "refreshReq", 1)
    /\ Log(p)[IndexOf(p, "refreshReq", 1) + 1].ev = "refreshFail"

\* C14: after a refused refresh with the cached refresh token the call goes
\* on with the seed credential: a seed with expiry - now > bufferWindow is
\* adopted, otherwise a refresh with the seed's refresh token is requested.
\* The call returns without error exactly if the seed was adopted or that
\* second refresh succeeded; it fails exactly if the seed is not JSON or the
\* second refresh was refused too.
C14_CachedRefreshFailureFallsThrough ==
    \A p \in Procs :
        CachedRefreshFailed(p) =>
            LET i == IndexOf(p, "refreshReq", 1) + 1
                seed == env.seed
                log == Log(p)
                seedAdopted == Len(log) > i /\ log[i + 1].ev = "adopt"
                seedRefreshed == Len(log) > i + 1 /\ log[i + 2].ev = "refreshOk"
                seedRefused == Len(log) > i + 1 /\ log[i + 2].ev = "refreshFail"
            IN
            /\ seed.kind = "garbage" =>
                /\ Len(log) = i
                /\ proc[p].aerr = "auth"
                /\ proc[p].amsg = AuthenticationFailed(<<SyntaxError>>)
            /\ seed.kind = "creds" =>
                /\ Len(log) > i
                /\ log[i + 1].ev \in {"adopt", "refreshReq"}
                /\ Fresh(seed, now) => seedAdopted
                /\ seedAdopted =>
                    /\ log[i + 1].m = "seed"
                    /\ log[i + 1].t = seed.at
                    /\ Fresh(seed, log[i + 1].s)
                /\ log[i + 1].ev = "refreshReq" => log[i + 1].t = seed.rt
            /\ proc[p].aerr = "none" <=>
                    (seed.kind = "creds" /\ (seedAdopted \/ ~seedRefused))
            /\ proc[p].pc = "done" =>
                /\ (proc[p].result = "ok") <=> (seedAdopted \/ seedRefreshed)
                /\ (proc[p].result = "AuthError") <=>
                        (seed.kind = "garbage" \/ seedRefused)

\* Witness of C14: the refresh with the cached refresh token was refused, the
\* refresh with the seed's refresh token succeeded, and the call has returned
\* without error.
C14_Witness ==
    /\ Returned(1)
    /\ CachedRefreshFailed(1)
    /\ Len(RefreshReqs(1)) = 2
    /\ proc[1].result = "ok"

\* ------------------------------------------------------------ C15
\* getCached returned nothing, or a credential that is stale and carries no
\* refresh token.
CacheMiss(p) ==
    /\ Checked(p)
    /\ \/ Cached(p).kind # "record"
       \/ ~Fresh(Cached(p), CheckedAt(p)) /\ Cached(p).rt = NoRT

\* C15: on such a cache miss, a seed credential with
\* expiry - now > bufferWindow is adopted as the bearer token, a record with
\* the seed's access token, expiry and refresh token is handed to the store
\* (and is what the store holds at the return if the write succeeds), and no
\* request goes to the refresh endpoint; a seed credential that is not valid
\* in that sense is not adopted and a refresh with its refresh token is
\* requested.
C15_SeedAdoptedOrRefreshed ==
    \A p \in Procs :
        (CacheMiss(p) /\ env.seed.kind = "creds") =>
            LET k == IndexOf(p, "check", 1)
                seed == env.seed
                r == proc[p]
            IN
            IF Fresh(seed, CheckedAt(p))
            THEN /\ Log(p)[k + 1] = Ev("adopt", "seed", seed.at, CheckedAt(p))
                 /\ RefreshReqs(p) = <<>>
                 /\ r.aerr = "none"
                 /\ r.pend = CachedTokenData(seed.at, seed.exp, seed.rt)
                 /\ r.pc \in {"ia_write", "ia_done", "done"}
                 /\ r.pc \in {"ia_write", "ia_done"} => getAccessToken = seed.at
                 /\ r.pc \in {"ia_done", "done"} =>
                        /\ Len(Writes(p)) = 1
                        /\ Writes(p)[1].body = r.pend
                 /\ (r.pc = "ia_done" /\ Writes(p)[1].m = "ok") => file = r.pend
                 /\ r.pc = "done" => r.result = "ok"
            ELSE /\ Log(p)[k + 1] = Ev("refreshReq", "", seed.rt, 0)
                 /\ Adopts(p) = <<>>
                 /\ Len(RefreshReqs(p)) = 1

\* Witness of C15: the cached credential was stale and had no refresh token,
\* the seed was still valid, and the call has returned with the seed's
\* credential in the store.
C15_Witness ==
    /\ Returned(1)
    /\ CacheMiss(1)
    /\ Cached(1).kind = "record"
    /\ env.seed.kind = "creds"
    /\ Fresh(env.seed, CheckedAt(1))
    /\ file = CachedTokenData(env.seed.at, env.seed.exp, env.seed.rt)
    /\ proc[1].result = "ok"

\* ------------------------------------------------------------ C16
\* C16: a 2xx answer to a refresh requested with refresh token R makes the
\* returned access token the bearer token in memory, and the record handed
\* to the store (the record the store holds at the return, if the write
\* succeeds) has that access token, expiry = time of the answer + expires_in
\* seconds, and as refresh token the returned one if the answer carried one,
\* otherwise R.
C16_RefreshResult ==
    \A p \in Procs : \A j \in Idx(p) :
        (EnsureValidCall(p) /\ Log(p)[j].ev = "refreshOk") =>
            LET resp == Log(p)[j].body
                R == Log(p)[j - 1].t
                r == proc[p]
            IN
            /\ Log(p)[j - 1].ev = "refreshReq"
            /\ r.pend = Refreshed(resp, R)
            /\ r.pend.at = Log(p)[j].t
            /\ r.pend.exp = resp.date + resp.expires_in * 1000
            /\ r.pend.rt = (IF resp.refresh_token = NoRT THEN R ELSE resp.refresh_token)
            /\ r.pc \in {"ia_write", "ia_done"} => getAccessToken = resp.access_token
            /\ r.pc \in {"ia_done", "done"} =>
                /\ Len(Log(p)) = j + 1
                /\ Log(p)[j + 1].ev = "write"
                /\ Log(p)[j + 1].body = r.pend
            /\ (r.pc = "ia_done" /\ Log(p)[j + 1].m = "ok") => file = r.pend
            /\ r.pc = "done" => r.result = "ok"

\* Witness of C16: the answer carried no refresh token, and the call has
\* returned with a record in the store that keeps the refresh token the
\* request was made with.
C16_Witness ==
    /\ Returned(1)
    /\ Len(RefreshReqs(1)) = 1
    /\ Log(1)[Len(Log(1)) - 1].ev = "refreshOk"
    /\ Log(1)[Len(Log(1)) - 1].body.refresh_token = NoRT
    /\ file = proc[1].pend
    /\ file.rt = RefreshReqs(1)[1].t
    /\ file.exp = now + 3600000

\* ------------------------------------------------------------ C17
\* The refresh with the seed's refresh token was answered with a non-2xx
\* status.
SeedRefreshRefused(p) ==
    /\ EnsureValidCall(p)
    /\ proc[p].phase = "seed"
    /\ Log(p) # <<>>
    /\ Log(p)[Len(Log(p))].ev = "refreshFail"

\* C17: a non-2xx answer to the refresh with the seed's refresh token ends
\* ensureValid() with an authentication error whose message contains the text
\* of the answer; the call has adopted no credential and has handed nothing
\* to the store.
C17_SeedRefreshFailureIsAuthError ==
    \A p \in Procs :
        SeedRefreshRefused(p) =>
            LET last == Log(p)[Len(Log(p))]
                r == proc[p]
            IN
            /\ last.t = env.seed.rt
            /\ ~ResponseOk(last.s)
            /\ r.pc \in {"ia_done", "done"}
            /\ r.aerr = "auth"
            /\ r.amsg[1] = "Authentication failed: "
            /\ \E k \in 1..Len(r.amsg) : r.amsg[k] = last.m
            /\ Adopts(p) = <<>>
            /\ EventsOf(p, "refreshOk") = <<>>
            /\ Writes(p) = <<>>
            /\ r.pend = NoFile
            /\ r.pc = "done" => r.result = "AuthError"

\* Witness of C17: both refreshes were refused, and the call has returned the
\* authentication error with the text of the second answer.
C17_Witness ==
    /\ Returned(1)
    /\ SeedRefreshRefused(1)
    /\ Len(RefreshReqs(1)) = 2
    /\ EventsOf(1, "refreshFail")[1].m = "bodyA"
    /\ proc[1].amsg = <<"Authentication failed: ", "Token refresh failed: ", "bodyB">>
    /\ proc[1].result = "AuthError"

\* ------------------------------------------------------------ C18
Reads(p) == EventsOf(p, "read")

\* C18: getCached returns absent when the file is missing, is empty, holds
\* text that is not JSON, or cannot be read, and the stored record otherwise.
\* The call then goes on exactly as on a cache miss: it adopts a seed with
\* expiry - now > bufferWindow, requests a refresh with the refresh token of
\* an expired seed, and fails only because the seed is not JSON or because
\* that refresh is refused, never because of the store.
C18_StoreFailuresAreCacheMisses ==
    \A p \in Procs :
        (EnsureValidCall(p) /\ Reads(p) # <<>>) =>
            LET rd == Reads(p)[1]
                k == IndexOf(p, "check", 1)
                seed == env.seed
                r == proc[p]
            IN
            /\ Len(Reads(p)) = 1
            /\ rd.m \in {"absent", "empty", "garbage", "error", "record"}
            /\ rd.m # "record" => rd.body = NoFile
            /\ rd.m = "record" => rd.body.kind = "record"
            /\ Checked(p) => Cached(p) = rd.body
            /\ (rd.body = NoFile /\ Checked(p)) =>
                /\ seed.kind = "garbage" =>
                    /\ Len(Log(p)) = k
                    /\ r.amsg = AuthenticationFailed(<<SyntaxError>>)
                /\ (seed.kind = "creds" /\ Fresh(seed, CheckedAt(p))) =>
                    /\ Log(p)[k + 1] = Ev("adopt", "seed", seed.at, CheckedAt(p))
                    /\ r.aerr = "none"
                /\ (seed.kind = "creds" /\ ~Fresh(seed, CheckedAt(p))) =>
                    Log(p)[k + 1] = Ev("refreshReq", "", seed.rt, 0)
                /\ r.aerr # "none" =>
                    (seed.kind = "garbage" \/ SeedRefreshRefused(p))
                /\ r.pc = "done" => (r.result = "ok" <=> r.aerr = "none")

\* Witness of C18: the read of the store failed, and the call has returned
\* without error with the seed's access token.
C18_Witness ==
    /\ Returned(1)
    /\ Reads(1) # <<>>
    /\ Reads(1)[1].m = "error"
    /\ Adopts(1) # <<>>
    /\ Adopts(1)[1].m = "seed"
    /\ proc[1].result = "ok"
    /\ getAccessToken = env.seed.at

\* ------------------------------------------------------------ C19
\* No other call has changed the bearer token.
OnlyAdopter(p) ==
    \A q \in Procs \ {p} : Adopts(q) = <<>> /\ EventsOf(q, "refreshOk") = <<>>

\* C19: when the write of the credential a call has adopted, from the seed or
\* from a refresh, fails, ensureValid() still returns without error, and
\* getToken() returns the adopted access token.
C19_FailedWriteIsNotFatal ==
    \A p \in Procs :
        (EnsureValidCall(p) /\ Writes(p) # <<>> /\ Writes(p)[1].m = "failed") =>
            LET w == Writes(p)[1]
                r == proc[p]
                j == IndexOf(p, "write", 1)
            IN
            /\ Log(p)[j - 1].ev \in {"adopt", "refreshOk"}
            /\ Log(p)[j - 1].t = w.t
            /\ w.body.at = w.t
            /\ r.pc \in {"ia_done", "done"}
            /\ r.aerr = "none"
            /\ r.amsg = <<>>
            /\ r.pc = "done" => r.result = "ok"
            /\ (r.pc = "ia_done" \/ OnlyAdopter(p)) => getAccessToken = w.t

\* Witness of C19: the write after a refresh failed, the call has returned
\* without error, the store does not hold the new credential and getToken()
\* returns its access token.
C19_Witness ==
    /\ Returned(1)
    /\ Writes(1) # <<>>
    /\ Writes(1)[1].m = "failed"
    /\ EventsOf(1, "refreshOk") # <<>>
    /\ proc[1].result = "ok"
    /\ file # Writes(1)[1].body
    /\ getAccessToken = Writes(1)[1].t

\* ------------------------------------------------------------ C20
\* Indices of the writes that succeeded after index i of the history of p.
PutsAfter(p, i) ==
    {j \in Idx(p) : j > i /\ Log(p)[j].ev = "write" /\ Log(p)[j].m = "ok"}

\* C20: after clear() has completed without a storage error, getCached
\* returns absent as long as no put has succeeded since; the ensureValid()
\* that follows is given absent by getCached, and no cached credential is
\* adopted before the next successful put.
C20_ClearedUntilNextPut ==
    \A p \in Procs : \A i \in Idx(p) :
        (proc[p].op = "invoke" /\ Log(p)[i].ev = "clear" /\ Log(p)[i].m = "ok") =>
            /\ PutsAfter(p, i) = {} => getTokenFromFile(FALSE) = NoFile
            /\ \A j \in Idx(p) :
                (j > i /\ \A k \in PutsAfter(p, i) : j < k) =>
                    /\ Log(p)[j].ev \in {"read", "check"} => Log(p)[j].body = NoFile
                    /\ Log(p)[j].ev = "adopt" => Log(p)[j].m = "seed"

\* Witness of C20: a cached credential was adopted and rejected with 401, the
\* cache was cleared, and the ensureValid() that followed adopted the seed
\* credential instead.
C20_Witness ==
    /\ proc[1].op = "invoke"
    /\ Len(Adopts(1)) >= 2
    /\ Adopts(1)[1].m = "cached"
    /\ Adopts(1)[2].m = "seed"
    /\ Adopts(1)[2].t # Adopts(1)[1].t
    /\ \E i \in Idx(1) :
        /\ Log(1)[i].ev = "clear"
        /\ Log(1)[i].m = "ok"
        /\ IndexOf(1, "adopt", 1) < i
        /\ i < IndexOf(1, "adopt", 2)

\* ------------------------------------------------------------ C21
\* C21 (as claimed): once an idle timer has cancelled the pending read of a
\* stream, the attempt fails with an error: the idle timeout is followed by
\* the failure of the attempt, and the call never ends as a stream that
\* completed normally.
C21_IdleTimeoutIsError ==
    \A p \in Procs : \A i \in Idx(p) :
        (Generating(p) /\ Log(p)[i].ev = "idle") =>
            /\ i < Len(Log(p))
            /\ Log(p)[i + 1].ev = "fail"
            /\ Log(p)[i + 1].m = "Error"
            /\ ~(proc[p].pc = "done" /\ proc[p].result = "complete")

\* ------------------------------------------------------------ C22
\* C22: no timer outlives its attempt.  At most one idle timer is pending; a
\* pending timer belongs to the activation that is running: its connection
\* timer while it waits for the headers, its idle timer while a read of the
\* body is pending.  No timer is pending when the consumer has control, when
\* an error is on its way out, or when the call has ended.
C22_NoTimerOutlivesAttempt ==
    \A p \in Procs :
        Generating(p) =>
            LET r == proc[p] IN
            /\ Cardinality({t \in r.timers : t.kind = "idle"}) <= 1
            /\ \A t \in r.timers :
                /\ r.frames # <<>>
                /\ t.owner = Len(r.frames)
                /\ \/ t.kind = "conn" /\ t.id = Top(r).timeoutId /\ r.pc = "ps_wait"
                   \/ t.kind = "idle" /\ t.id = Top(r).idleTimer /\ r.pc = "ps_body"
            /\ r.pc \in {"done", "ps_yield", "ps_notice", "ps_throw"} => r.timers = {}

\* A consumer has ended early a call whose attempt had armed its connection
\* timer and an idle timer.
C22_Witness ==
    /\ Generating(1)
    /\ proc[1].pc = "done"
    /\ proc[1].result = "returned"
    /\ proc[1].nextTimer >= 3
    /\ Len(EventsOf(1, "chunk")) > 0

\* ------------------------------------------------------------ C23
\* C23: when an error reaches the catch block of an attempt that is not
\* marked retried, and it is an abort by the connection timer or comes less
\* than QUICK_FAIL_THRESHOLD_MS after the start of the attempt, the next thing
\* the call does is to send the same request (model id and body) once more,
\* and that is the only request sent after the failure.  Otherwise no request
\* follows and the error leaves the call.
C23_QuickFailRetriedOnce ==
    \A p \in Procs : \A i \in Idx(p) :
        (Generating(p) /\ Log(p)[i].ev = "fail" /\ Log(p)[i].s = 0) =>
            IF Log(p)[i].m = "AbortError"
               \/ Log(p)[i].body.duration < QUICK_FAIL_THRESHOLD_MS
            THEN /\ i < Len(Log(p))
                 /\ Log(p)[i + 1].ev = "req"
                 /\ Log(p)[i + 1].m = ViaRetry
                 /\ Log(p)[i + 1].body = Log(p)[i].body.request
                 /\ {j \in Idx(p) : j > i /\ Log(p)[j].ev = "req"} = {i + 1}
            ELSE /\ i = Len(Log(p))
                 /\ \/ proc[p].pc = "ps_throw"
                    \/ proc[p].pc = "done" /\ proc[p].result = Log(p)[i].m

\* The connection timer has aborted a first attempt, the request has been sent
\* again, and the second attempt has failed too.
C23_Witness ==
    /\ Generating(1)
    /\ proc[1].pc = "done"
    /\ \E i \in Idx(1) :
        /\ Log(1)[i].ev = "fail" /\ Log(1)[i].s = 0 /\ Log(1)[i].m = "AbortError"
        /\ Log(1)[i].body.duration >= QUICK_FAIL_THRESHOLD_MS
        /\ \E j \in Idx(1) : j > i /\ Log(1)[j].ev = "fail" /\ Log(1)[j].s = 1

\* ------------------------------------------------------------ C25
\* The chunks the events of an attempt are mapped to, in order.
ChunksOf(log) ==
    LET yielded == SelectSeq(log, LAMBDA x : x.ev = "chunk")
    IN [k \in 1..Len(yielded) |->
            StreamChunk(yielded[k].body.properties.response.candidates[1].content.parts,
                        yielded[k].m)]

\* C25 (as claimed): every decoded event of an attempt that carries
\* response.candidates is yielded as one chunk and every other event yields
\* nothing and lets the attempt go on; the output is the sequence of those
\* chunks in the order of the events; after an error has left an attempt no
\* chunk follows unless a new request was sent.
C25_ChunksAreCandidateEvents ==
    \A p \in Procs :
        Generating(p) =>
            /\ \A i \in Idx(p) :
                Log(p)[i].ev \in {"chunk", "event"} =>
                    IF ReadsCandidates(Log(p)[i].body) = "candidates"
                    THEN Log(p)[i].ev = "chunk"
                    ELSE Log(p)[i].ev = "event" /\ Log(p)[i].m = "skipped"
            /\ EventsOf(p, "notice") = <<>> => proc[p].out = ChunksOf(Log(p))
            /\ \A i, j \in Idx(p) :
                (i < j /\ Log(p)[i].ev = "fail" /\ Log(p)[j].ev = "chunk")
                    => \E k \in (i + 1)..(j - 1) : Log(p)[k].ev = "req"

\* ------------------------------------------------------------ getCompletionNative
\* A candidate of a chunk, as line 483-491 build it: `parts` is always an
\* array; `finishReason` and `groundingMetadata` may be undefined.
Candidate(parts, finishReason, groundingMetadata) ==
    [parts |-> parts, finishReason |-> finishReason,
     groundingMetadata |-> groundingMetadata]

\* The candidates of the chunks the aggregation is fed with.
Candidates ==
    {Candidate(<<"a">>, Undefined, Undefined),
     Candidate(<<"b", "c">>, "STOP", "grounding1"),
     Candidate(<<>>, "MAX_TOKENS", "grounding2")}

\* The `candidates` arrays of chunks: none, one or two candidates.
CandidateLists == UNION {[1..n -> Candidates] : n \in 0..2}

\* `chunk.data` of the chunks: candidates, and usageMetadata or undefined.
ChunkData ==
    {[candidates |-> cs, usageMetadata |-> u] :
        cs \in CandidateLists, u \in {Undefined, "usage1", "usage2"}}

\* `if (x)` for a value that is a non-empty string, an object or undefined.
Truthy(x) == x # Undefined

\* Lines 179-184: `if (value) target = value`.
AssignIfPresent_Always(old, value) == value

AssignIfPresent(old, value) == IF Truthy(value) THEN value ELSE old

\* Lines 171-185: one candidate of a chunk is folded into `candidates`.
FoldCandidate(candidates, candidate) ==
    LET started == IF Len(candidates) = 0
                   THEN <<[role |-> "model", parts |-> <<>>,
                           finishReason |-> Undefined,
                           groundingMetadata |-> Undefined]>>
                   ELSE candidates
    IN [started EXCEPT
            ![1].parts = @ \o candidate.parts,
            ![1].finishReason = AssignIfPresent(@, candidate.finishReason),
            ![1].groundingMetadata = AssignIfPresent(@, candidate.groundingMetadata)]

\* Lines 170-186: the candidates of one chunk, in order.
RECURSIVE FoldCandidates(_, _)
FoldCandidates(candidates, list) ==
    IF list = <<>> THEN candidates
    ELSE FoldCandidates(FoldCandidate(candidates, Head(list)), Tail(list))

\* The locals of getCompletionNative before the first chunk (lines 166-167).
Aggregation(chunks) ==
    [kind |-> "aggregate", chunks |-> chunks, consumed |-> 0,
     candidates |-> <<>>, usageMetadata |-> Undefined,
     returned |-> FALSE, modelId |-> "gemini-2.5-pro"]

\* Lines 169-191: the next chunk of the sequence arrives.
AggregateChunk ==
    LET chunk == unit.chunks[unit.consumed + 1] IN
    /\ unit.kind = "aggregate"
    /\ ~unit.returned
    /\ unit.consumed < Len(unit.chunks)
    /\ unit' = [unit EXCEPT
            !.consumed = @ + 1,
            !.candidates = FoldCandidates(@, chunk.candidates),
            !.usageMetadata = AssignIfPresent(@, chunk.usageMetadata)]
    /\ UNCHANGED <<now, ticks, accessToken, file, issued, env, proc>>

\* Lines 193-197: the sequence has ended, the response is returned.
GeminiNativeResponse ==
    [candidates |-> unit.candidates, usageMetadata |-> unit.usageMetadata,
     modelVersion |-> unit.modelId]

AggregateReturn ==
    /\ unit.kind = "aggregate"
    /\ ~unit.returned
    /\ unit.consumed = Len(unit.chunks)
    /\ unit' = [unit EXCEPT !.returned = TRUE]
    /\ UNCHANGED <<now, ticks, accessToken, file, issued, env, proc>>

\* ------------------------------------------------------------ SpecAggregate:
\* getCompletionNative fed with every sequence of up to MaxAggregated chunks
InitIdle ==
    /\ now = 0
    /\ ticks = 0
    /\ accessToken = NullTok
    /\ issued = 0
    /\ file = NoFile
    /\ env = MkEnv(FileRec("unset", NullTok, NoRT, 0), "true", "set")
    /\ proc = [p \in Procs |-> IdleProc]

InitAggregate ==
    /\ InitIdle
    /\ unit \in {Aggregation(chunks) :
                    chunks \in UNION {[1..n -> ChunkData] : n \in 0..MaxAggregated}}

NextAggregate ==
    \/ AggregateChunk
    \/ AggregateReturn

SpecAggregate == InitAggregate /\ [][NextAggregate]_vars

\* ------------------------------------------------------------ C24
RECURSIVE Flatten(_)
Flatten(lists) ==
    IF lists = <<>> THEN <<>> ELSE Head(lists) \o Flatten(Tail(lists))

\* The last value of a sequence that is not undefined (undefined if none).
LastPresent(values) ==
    LET present == {i \in 1..Len(values) : values[i] # Undefined}
    IN IF present = {} THEN Undefined
       ELSE values[CHOOSE i \in present : \A j \in present : j <= i]

\* Every candidate of every chunk, in the order of arrival.
ArrivedCandidates ==
    Flatten([i \in 1..Len(unit.chunks) |-> unit.chunks[i].candidates])

\* C24: the response of getCompletionNative has no candidate when no chunk
\* had one, else exactly one, whose parts are the parts of every candidate of
\* every chunk in the order of arrival, and whose finishReason and
\* groundingMetadata are the last ones a candidate carried; usageMetadata is
\* the last one a chunk carried.  A chunk or candidate without a field leaves
\* the earlier value.
C24_AggregateIsConcatenation ==
    (unit.kind = "aggregate" /\ unit.returned) =>
        LET all == ArrivedCandidates
            response == GeminiNativeResponse
        IN
        /\ Len(response.candidates) = (IF all = <<>> THEN 0 ELSE 1)
        /\ all # <<>> =>
            /\ response.candidates[1].parts
                    = Flatten([i \in 1..Len(all) |-> all[i].parts])
            /\ response.candidates[1].finishReason
                    = LastPresent([i \in 1..Len(all) |-> all[i].finishReason])
            /\ response.candidates[1].groundingMetadata
                    = LastPresent([i \in 1..Len(all) |-> all[i].groundingMetadata])
        /\ response.usageMetadata
                = LastPresent([i \in 1..Len(unit.chunks) |-> unit.chunks[i].usageMetadata])

\* A response aggregated from two chunks, the first with a finishReason and
\* usageMetadata, the second with parts but neither of them.
C24_Witness ==
    /\ unit.kind = "aggregate"
    /\ unit.returned
    /\ Len(unit.chunks) = 2
    /\ unit.chunks[1].usageMetadata # Undefined
    /\ unit.chunks[2].usageMetadata = Undefined
    /\ Len(unit.chunks[1].candidates) = 2
    /\ unit.chunks[1].candidates[2].finishReason = "STOP"
    /\ Len(unit.chunks[2].candidates) = 1
    /\ unit.chunks[2].candidates[1].finishReason = Undefined
    /\ GeminiNativeResponse.candidates[1].finishReason = "STOP"

\* ------------------------------------------------------------ parseSSEStream
\* Texts are sequences of characters.
Text(s) == s
DataPrefix == <<"d", "a", "t", "a", ":", " ">>
Newline == "\n"
Whitespace == {" "}

\* `line.trim()`
RECURSIVE TrimStart(_)
TrimStart(text) ==
    IF text # <<>> /\ Head(text) \in Whitespace THEN TrimStart(Tail(text)) ELSE text

RECURSIVE TrimEnd(_)
TrimEnd(text) ==
    IF text # <<>> /\ text[Len(text)] \in Whitespace
    THEN TrimEnd(SubSeq(text, 1, Len(text) - 1))
    ELSE text

Trim(text) == TrimEnd(TrimStart(text))

\* `line.startsWith("data: ")`
StartsWith(line, prefix) ==
    Len(line) >= Len(prefix) /\ SubSeq(line, 1, Len(prefix)) = prefix

\* `line.substring(6)`
Substring(line, start) == SubSeq(line, start + 1, Len(line))

\* `buffer.split("\n")`: the segments between the newlines; the last one is
\* what follows the last newline.
RECURSIVE Split(_)
Split(text) ==
    LET breaks == {i \in 1..Len(text) : text[i] = Newline} IN
    IF breaks = {} THEN <<text>>
    ELSE LET i == CHOOSE b \in breaks : \A c \in breaks : b <= c
         IN <<SubSeq(text, 1, i - 1)>> \o Split(SubSeq(text, i + 1, Len(text)))

\* `JSON.parse(text)`.  The JSON texts of this alphabet are the numbers written
\* with the digits "1" and "2" and the empty object, with white space around
\* them; anything else is a syntax error.  The value of a text does not depend
\* on its white space.
Digits == {"1", "2"}
JsonSyntaxOk(text) ==
    LET t == Trim(text) IN
    \/ t # <<>> /\ \A i \in 1..Len(t) : t[i] \in Digits
    \/ t = <<"{", "}">>
JsonParse(text) == [json |-> Trim(text)]

\* The locals of parseSSEStream, what it has yielded, and what it did with
\* each line and with the end of the stream (`eof`): `before` and `after` are
\* objectBuffer around the line, `yields` the events it yielded.
Decoder ==
    [buffer |-> <<>>, objectBuffer |-> <<>>, yielded |-> <<>>, log |-> <<>>]

LineRecord(line, eof, before, after, yields) ==
    [line |-> line, eof |-> eof, before |-> before, after |-> after,
     yields |-> yields]

\* Lines 121-125 and 109-113: `try { yield JSON.parse(objectBuffer) } catch`.
TryYield_Unparsed(objectBuffer) == <<[json |-> objectBuffer]>>

TryYield(objectBuffer) ==
    IF JsonSyntaxOk(objectBuffer) THEN <<JsonParse(objectBuffer)>> ELSE <<>>

\* Line 127: objectBuffer after a flush.
AfterFlush_Kept(objectBuffer) == objectBuffer

AfterFlush(objectBuffer) == <<>>

\* Line 129: is the line a data line?
IsDataLine(line) == StartsWith(line, DataPrefix)

\* Lines 119-131: one complete line.
DecodeLine(d, line) ==
    IF Trim(line) = <<>>
    THEN IF d.objectBuffer # <<>>
         THEN [d EXCEPT
                !.yielded = @ \o TryYield(d.objectBuffer),
                !.objectBuffer = AfterFlush(@),
                !.log = Append(@, LineRecord(line, FALSE, d.objectBuffer,
                                             AfterFlush(d.objectBuffer),
                                             TryYield(d.objectBuffer)))]
         ELSE [d EXCEPT
                !.log = Append(@, LineRecord(line, FALSE, <<>>, <<>>, <<>>))]
    ELSE IF IsDataLine(line)
    THEN [d EXCEPT
            !.objectBuffer = @ \o Substring(line, 6),
            !.log = Append(@, LineRecord(line, FALSE, d.objectBuffer,
                                         d.objectBuffer \o Substring(line, 6), <<>>))]
    ELSE [d EXCEPT
            !.log = Append(@, LineRecord(line, FALSE, d.objectBuffer,
                                         d.objectBuffer, <<>>))]

RECURSIVE DecodeLines(_, _)
DecodeLines(d, lines) ==
    IF lines = <<>> THEN d
    ELSE DecodeLines(DecodeLine(d, Head(lines)), Tail(lines))

\* Line 116: `buffer = lines.pop() || ""`.
Remainder_Dropped(segments) == <<>>

Remainder(segments) == segments[Len(segments)]

\* Lines 114-132: a read has delivered `value`.
DecodeValue(d, value) ==
    LET segments == Split(d.buffer \o value)
        lines == SubSeq(segments, 1, Len(segments) - 1)
    IN DecodeLines([d EXCEPT !.buffer = Remainder(segments)], lines)

\* Lines 107-116: a read has reported the end of the stream.
FinalFlush_None(objectBuffer) == <<>>

FinalFlush(objectBuffer) ==
    IF objectBuffer # <<>> THEN TryYield(objectBuffer) ELSE <<>>

\* Line 108: what the final flush works on is objectBuffer; `buffer`, the
\* text after the last newline, is not looked at.
PayloadAtEnd_WithBuffer(d) ==
    d.objectBuffer \o (IF IsDataLine(d.buffer) THEN Substring(d.buffer, 6) ELSE <<>>)

PayloadAtEnd(d) == d.objectBuffer

DecodeDone(d) ==
    [d EXCEPT
        !.yielded = @ \o FinalFlush(PayloadAtEnd(d)),
        !.log = Append(@, LineRecord(<<>>, TRUE, PayloadAtEnd(d), PayloadAtEnd(d),
                                     FinalFlush(PayloadAtEnd(d))))]

\* The bytes of a stream: pieces made of complete lines (data lines alone or
\* with the blank line after them, a blank line, a line of white space, a line
\* without the prefix), and possibly a last line that no newline ends.
WirePieces ==
    {<<"d", "a", "t", "a", ":", " ", "1", "\n">>,
     <<"d", "a", "t", "a", ":", " ", "2", "\n", "\n">>,
     <<"d", "a", "t", "a", ":", " ", "{", "\n">>,
     <<"d", "a", "t", "a", ":", " ", "}", "\n", "\n">>,
     <<"\n">>,
     <<" ", "\n">>,
     <<"d", "a", "t", "a", ":", "1", "2", "\n">>}
WireTails == {<<>>, <<"d", "a", "t", "a", ":", " ", "1">>}

RECURSIVE Concat(_)
Concat(texts) ==
    IF texts = <<>> THEN <<>> ELSE Head(texts) \o Concat(Tail(texts))

Wires ==
    {Concat(pieces) \o tail :
        pieces \in UNION {[1..n -> WirePieces] : n \in 0..MaxPieces},
        tail \in WireTails}

\* A decoding of `wire`, of which `pos` characters have been read; `cut` tells
\* whether a read has ended inside a line.
Decoding(wire) ==
    [kind |-> "decode", wire |-> wire, pos |-> 0, d |-> Decoder, done |-> FALSE,
     cut |-> FALSE]

\* Lines 95 and 114-132: a read delivers the next n characters.
DecodeRead(n) ==
    /\ unit.kind = "decode"
    /\ ~unit.done
    /\ n \in 1..(Len(unit.wire) - unit.pos)
    /\ unit' = [unit EXCEPT
            !.pos = @ + n,
            !.d = DecodeValue(@, SubSeq(unit.wire, unit.pos + 1, unit.pos + n)),
            !.cut = @ \/ (unit.pos + n < Len(unit.wire)
                            /\ unit.wire[unit.pos + n] # Newline)]
    /\ UNCHANGED <<now, ticks, accessToken, file, issued, env, proc>>

\* Lines 95 and 107-116: a read reports the end of the stream.
DecodeEnd ==
    /\ unit.kind = "decode"
    /\ ~unit.done
    /\ unit.pos = Len(unit.wire)
    /\ unit' = [unit EXCEPT !.done = TRUE, !.d = DecodeDone(@)]
    /\ UNCHANGED <<now, ticks, accessToken, file, issued, env, proc>>

\* ------------------------------------------------------------ SpecDecode:
\* parseSSEStream over every stream of up to MaxPieces pieces, in every split
\* into reads
MaxRead == 9 * MaxPieces + 7

InitDecode ==
    /\ InitIdle
    /\ unit \in {Decoding(wire) : wire \in Wires}

NextDecode ==
    \/ \E n \in 1..MaxRead : DecodeRead(n)
    \/ DecodeEnd

SpecDecode == InitDecode /\ [][NextDecode]_vars

\* ------------------------------------------------------------ histories of a decoding
Decoded == unit.kind = "decode" /\ unit.done
Lines == unit.d.log
\* A line of white space only, a line that starts with the data prefix, and
\* what follows the prefix.
IsBlank(line) == \A i \in 1..Len(line) : line[i] \in Whitespace
HasDataPrefix(line) ==
    /\ Len(line) >= 6
    /\ \A i \in 1..6 : line[i] = DataPrefix[i]
BodyOf(line) ==
    IF ~IsBlank(line) /\ HasDataPrefix(line)
    THEN [k \in 1..(Len(line) - 6) |-> line[k + 6]]
    ELSE <<>>
\* The entry at i is a flush: a blank line, or the end of the stream, met with
\* a pending payload.
IsFlush(i) ==
    /\ Lines[i].before # <<>>
    /\ Lines[i].eof \/ IsBlank(Lines[i].line)
\* The bodies of the data lines since the flush before the entry at i.
Pending(i) ==
    LET flushes == {j \in 1..(i - 1) : IsFlush(j)}
        from == IF flushes = {} THEN 0
                ELSE CHOOSE j \in flushes : \A k \in flushes : k <= j
    IN Concat([k \in 1..(i - 1 - from) |-> BodyOf(Lines[from + k].line)])
\* The log holds the lines of the stream, in order, and then its end; what no
\* newline ended is left in the buffer.
LinesAreTheStream ==
    /\ Lines # <<>>
    /\ \A i \in 1..Len(Lines) : Lines[i].eof <=> i = Len(Lines)
    /\ \A i \in 1..Len(Lines) : \A k \in 1..Len(Lines[i].line) :
            Lines[i].line[k] # Newline
    /\ unit.wire = Concat([i \in 1..(Len(Lines) - 1) |-> Lines[i].line \o <<Newline>>])
                        \o unit.d.buffer

\* ------------------------------------------------------------ C26
\* C26: the decoder handles every line of the stream in order.  The payload
\* pending at a line is the concatenation of the bodies of the data lines
\* since the previous flush.  A blank line met with a non-empty payload that
\* is valid JSON yields its JSON value, one event, and empties the payload; a
\* blank line met with an empty payload, and a non-blank line without the
\* data prefix, yield nothing and leave the payload as it is; a data line
\* yields nothing.  The output is what the lines yielded, in their order.
C26_OneEventPerValidFrame ==
    Decoded =>
        /\ LinesAreTheStream
        /\ \A i \in 1..Len(Lines) :
            LET e == Lines[i] IN
            /\ e.before = Pending(i)
            /\ Len(e.yields) <= 1
            /\ (~e.eof /\ IsBlank(e.line) /\ e.before # <<>>) =>
                    /\ e.after = <<>>
                    /\ JsonSyntaxOk(e.before) => e.yields = <<JsonParse(e.before)>>
            /\ (~e.eof /\ IsBlank(e.line) /\ e.before = <<>>) =>
                    e.yields = <<>> /\ e.after = <<>>
            /\ (~e.eof /\ ~IsBlank(e.line) /\ ~HasDataPrefix(e.line)) =>
                    e.yields = <<>> /\ e.after = e.before
            /\ (~e.eof /\ ~IsBlank(e.line) /\ HasDataPrefix(e.line)) =>
                    e.yields = <<>>
        /\ unit.d.yielded = Concat([i \in 1..Len(Lines) |-> Lines[i].yields])

\* A stream of two frames with different values whose events came out in the
\* order of the frames, the first one with a payload made of two data lines.
C26_Witness ==
    /\ Decoded
    /\ unit.d.yielded = <<[json |-> <<"{", "}">>], [json |-> <<"2">>]>>
    /\ Lines[Len(Lines)].yields = <<>>

\* ------------------------------------------------------------ C27
\* C27: a blank line met with a payload that is not valid JSON yields nothing
\* and empties the payload; the decoding goes on to the end of the stream, and
\* every later frame with a valid payload is yielded with the value of its own
\* data lines only.
C27_MalformedFrameIsDropped ==
    Decoded =>
        \A i \in 1..Len(Lines) :
            (~Lines[i].eof /\ IsBlank(Lines[i].line) /\ Lines[i].before # <<>>
                /\ ~JsonSyntaxOk(Lines[i].before)) =>
                    /\ Lines[i].yields = <<>>
                    /\ Lines[i].after = <<>>
                    /\ LinesAreTheStream
                    /\ \A j \in (i + 1)..Len(Lines) :
                        (IsFlush(j) /\ JsonSyntaxOk(Pending(j))) =>
                            Lines[j].yields = <<JsonParse(Pending(j))>>

\* A malformed frame was dropped and a later frame was yielded.
C27_Witness ==
    /\ Decoded
    /\ \E i \in 1..Len(Lines) :
        /\ ~Lines[i].eof /\ IsBlank(Lines[i].line) /\ Lines[i].before = <<"{">>
        /\ \E j \in (i + 1)..Len(Lines) :
            ~Lines[j].eof /\ Lines[j].yields = <<[json |-> <<"2">>]>>

\* ------------------------------------------------------------ C29
\* C29: the events yielded for a stream are those yielded when the whole
\* stream arrives in one read, however the stream is split into reads.
C29_SplitIndependent ==
    Decoded =>
        unit.d.yielded = DecodeDone(DecodeValue(Decoder, unit.wire)).yielded

\* A stream with two events of which a read ended inside a line.
C29_Witness ==
    /\ Decoded
    /\ unit.cut
    /\ Len(unit.d.yielded) = 2

\* ------------------------------------------------------------ C30
\* C30: the end of the stream is handled once, after every line.  A payload
\* pending then (data lines that no blank line followed) is yielded as the
\* last event when it is valid JSON and dropped when it is not; with no
\* payload pending nothing is yielded at the end.
C30_FinalFlush ==
    Decoded =>
        LET n == Len(Lines)
            e == Lines[n]
        IN
        /\ LinesAreTheStream
        /\ e.before = Pending(n)
        /\ unit.d.yielded = Concat([i \in 1..n |-> Lines[i].yields])
        /\ IF e.before # <<>> /\ JsonSyntaxOk(e.before)
           THEN /\ e.yields = <<JsonParse(e.before)>>
                /\ unit.d.yielded[Len(unit.d.yielded)] = JsonParse(e.before)
           ELSE e.yields = <<>>

\* A stream that ended after two data lines that no blank line followed, whose
\* payload was yielded as the last event after the event of a frame.
C30_Witness ==
    /\ Decoded
    /\ Lines[Len(Lines)].before = <<"1", "1">>
    /\ unit.d.yielded = <<[json |-> <<"2">>], [json |-> <<"1", "1">>]>>

\* ------------------------------------------------------------ geminiApiKeyAuth
\* The hosts the app runs on: the Bun server of node-server.ts, which hands
\* `app.fetch` to Bun, and a Workers runtime.  Hono passes the second argument
\* of `fetch` on as `c.env`: the bindings on Workers, where the configured
\* variables are properties of it, and the server object on Bun, where the
\* variables are in `process.env` and `c.env` has no property named after them.
Hosts == {"bun", "workers"}
ContextEnv(host, GEMINI_API_KEY) ==
    IF host = "workers" THEN GEMINI_API_KEY ELSE Undefined

\* `!x` for a string or undefined.
Falsy(x) == x \in {Undefined, ""}

\* An Authorization header, and `authHeader.match(/^Bearer\s+(.+)$/)`: the
\* text after "Bearer" and white space, if there is some.
Authorization(scheme, credentials) == [scheme |-> scheme, credentials |-> credentials]
NoAuthorization == Authorization(Undefined, "")
BearerMatch(authHeader) ==
    IF authHeader.scheme = "Bearer" /\ authHeader.credentials # ""
    THEN authHeader.credentials
    ELSE Undefined

\* Lines 19-35: the key the request provides.
ProvidedKey(request) ==
    LET fromHeader == request.header
        fromQuery == IF Falsy(fromHeader)
                     THEN (IF Falsy(request.query) THEN Undefined ELSE request.query)
                     ELSE fromHeader
    IN IF Falsy(fromQuery)
       THEN (IF request.authorization.scheme # Undefined
             THEN BearerMatch(request.authorization)
             ELSE Undefined)
       ELSE fromQuery

\* index, line 46: the middleware is mounted on "/gemini/*".
GeminiPaths == {"/gemini/models", "/gemini/models/m:generateContent"}
Paths == GeminiPaths \cup {"/", "/health"}

\* Lines 8-65: what the middleware answers: the status, and whether `next()`
\* ran the handler.
Passed == [status |-> 200, handled |-> TRUE]
Unauthenticated(message) == [status |-> 401, handled |-> FALSE, message |-> message]

geminiApiKeyAuth(host, GEMINI_API_KEY, request) ==
    LET configured == ContextEnv(host, GEMINI_API_KEY)
        providedKey == ProvidedKey(request)
    IN
    IF request.path \in {"/", "/health"} THEN Passed
    ELSE IF Falsy(configured) THEN Passed
    ELSE IF Falsy(providedKey) THEN Unauthenticated("Missing API key")
    ELSE IF providedKey # configured THEN Unauthenticated("Invalid API key")
    ELSE Passed

\* A request at the app, the environment of the server, and the answer.
Keys == {Undefined, "", "secret", "guess"}
Requests ==
    {[path |-> path, header |-> header, query |-> query, authorization |-> authorization] :
        path \in Paths, header \in Keys, query \in Keys,
        authorization \in {NoAuthorization,
                           Authorization("Bearer", "secret"),
                           Authorization("Bearer", "guess"),
                           Authorization("Bearer", ""),
                           Authorization("Basic", "secret")}}

GateCall(host, GEMINI_API_KEY, request) ==
    [kind |-> "gate", host |-> host, GEMINI_API_KEY |-> GEMINI_API_KEY,
     request |-> request, answered |-> FALSE, answer |-> Passed]

\* index, lines 46-50: a request is routed; on the paths under /gemini it goes
\* through the middleware before its handler.
HandleRequest ==
    /\ unit.kind = "gate"
    /\ ~unit.answered
    /\ unit' = [unit EXCEPT
            !.answered = TRUE,
            !.answer = IF unit.request.path \in GeminiPaths
                       THEN geminiApiKeyAuth(unit.host, unit.GEMINI_API_KEY, unit.request)
                       ELSE Passed]
    /\ UNCHANGED <<now, ticks, accessToken, file, issued, env, proc>>

\* ------------------------------------------------------------ SpecGate:
\* one request at the app, for every environment and every request
InitGate ==
    /\ InitIdle
    /\ unit \in {GateCall(host, key, request) :
                    host \in Hosts, key \in {Undefined, "", "secret"},
                    request \in Requests}

NextGate == HandleRequest

SpecGate == InitGate /\ [][NextGate]_vars

\* ------------------------------------------------------------ C28
\* The key a request provides: the x-goog-api-key header if present, else the
\* key query parameter, else the Bearer value of the Authorization header
\* (present: with a value that is not empty).
C28_Provided(request) ==
    IF request.header \notin {Undefined, ""} THEN request.header
    ELSE IF request.query \notin {Undefined, ""} THEN request.query
    ELSE IF request.authorization.scheme = "Bearer"
            /\ request.authorization.credentials # ""
    THEN request.authorization.credentials
    ELSE Undefined

\* C28 (as claimed): when GEMINI_API_KEY is set in the environment of the
\* server, a request to a path under /gemini reaches its handler only if the
\* key it provides equals GEMINI_API_KEY, and is answered 401 otherwise; when
\* it is not set every request reaches its handler.
C28_GateEnforcesKey ==
    (unit.kind = "gate" /\ unit.answered) =>
        IF unit.request.path \in GeminiPaths /\ ~Falsy(unit.GEMINI_API_KEY)
        THEN /\ unit.answer.handled =>
                    C28_Provided(unit.request) = unit.GEMINI_API_KEY
             /\ ~unit.answer.handled => unit.answer.status = 401
        ELSE unit.answer.handled

\* ------------------------------------------------------------ C38
\* The stream up to its last newline.
Terminated(wire) ==
    LET breaks == {i \in 1..Len(wire) : wire[i] = Newline}
    IN IF breaks = {} THEN <<>>
       ELSE SubSeq(wire, 1, CHOOSE i \in breaks : \A j \in breaks : j <= i)

\* C38: what follows the last newline of a stream is discarded at its end:
\* the events are those of the stream cut after its last newline, and the
\* payload of the final flush holds the bodies of newline-terminated data
\* lines only, so that a stream made of one unterminated data line yields
\* nothing.
C38_UnterminatedLineDiscarded ==
    Decoded =>
        /\ unit.d.buffer = SubSeq(unit.wire, Len(Terminated(unit.wire)) + 1, Len(unit.wire))
        /\ Lines[Len(Lines)].before = Pending(Len(Lines))
        /\ unit.d.yielded = DecodeDone(DecodeValue(Decoder, Terminated(unit.wire))).yielded
        /\ Terminated(unit.wire) = <<>> => unit.d.yielded = <<>>

\* A stream that ended with a terminated data line followed by an
\* unterminated one: the final flush yielded the body of the first only.
C38_Witness ==
    /\ Decoded
    /\ unit.d.buffer = <<"d", "a", "t", "a", ":", " ", "1">>
    /\ Lines[Len(Lines)].before = <<"1">>
    /\ Lines[Len(Lines)].yields = <<[json |-> <<"1">>]>>

\* ------------------------------------------------------------ C36
\* The assignments of this.accessToken a call has made (lines 134, 160, 204).
Assigned(p) == SelectSeq(Log(p), LAMBDA x : x.ev \in {"adopt", "refreshOk"})

\* The callers that came before p and assigned the token.
AssignedBefore(p) == {q \in StoreCallers : q < p /\ Assigned(q) # <<>>}

\* The token in memory when the call of p began, the calls taking their turns:
\* what the last of the earlier calls assigned, or null as constructed.
TokenBefore(p) ==
    IF AssignedBefore(p) = {} THEN NullTok
    ELSE LET q == CHOOSE x \in AssignedBefore(p) : \A y \in AssignedBefore(p) : y <= x
         IN Assigned(q)[Len(Assigned(q))].t

\* No call has begun after the call of p.
LastCall(p) == \A q \in StoreCallers : q > p => proc[q].op = "idle"

\* C36: when a call of ensureValid() has failed, no other call running, the
\* token in memory is the one that was there when the call began, and the
\* call has assigned none.
C36_FailedCallLeavesMemory ==
    \A p \in StoreCallers :
        (EnsureValidCall(p) /\ proc[p].aerr # "none" /\ LastCall(p)) =>
            /\ accessToken = TokenBefore(p)
            /\ getAccessToken = TokenBefore(p)
            /\ Assigned(p) = <<>>
            /\ Returned(p) => proc[p].result = "AuthError"

\* Witness of C36: a call that followed one which had adopted a token has
\* failed after its refresh was refused, and that token is still in memory.
C36_Witness ==
    /\ Returned(2)
    /\ proc[2].result = "AuthError"
    /\ EventsOf(2, "refreshFail") # <<>>
    /\ TokenBefore(2) # NullTok
    /\ accessToken = TokenBefore(2)

\* ------------------------------------------------------------ C37
\* The access token of the credential a call has adopted: of the cached
\* record it examined, of the seed, or of the answer to its refresh.
AdoptedCredentialToken(p) ==
    LET a == Assigned(p)[Len(Assigned(p))] IN
    IF a.ev = "refreshOk" THEN a.body.access_token
    ELSE IF a.m = "cached" THEN Cached(p).at
    ELSE env.seed.at

\* C37: when a call of ensureValid() has returned without error, no other call
\* running, getToken() returns a token that is not absent and is the access
\* token of the credential the call adopted: the cached record, the seed, or
\* the answer to the refresh.  getToken() is a function of the state alone.
C37_TokenIsAdoptedCredential ==
    \A p \in StoreCallers :
        (Returned(p) /\ proc[p].result = "ok" /\ LastCall(p)) =>
            /\ Assigned(p) # <<>>
            /\ getAccessToken # NullTok
            /\ getAccessToken = AdoptedCredentialToken(p)
            /\ getAccessToken = accessToken

\* Witness of C37: a second call has returned without error with a refreshed
\* token, which differs from the one the first call had adopted.
C37_Witness ==
    /\ Returned(2)
    /\ proc[2].result = "ok"
    /\ Assigned(2) # <<>>
    /\ Assigned(2)[1].ev = "refreshOk"
    /\ TokenBefore(2) \notin {NullTok, getAccessToken}
    /\ getAccessToken = AdoptedCredentialToken(2)

\* ------------------------------------------------------------ C35
\* No call is in progress, and at least one has returned without error.
AtRest ==
    /\ Quiescent
    /\ \E p \in Procs : Returned(p) /\ proc[p].result = "ok"

\* C35 (as claimed): for every interleaving of concurrent ensureValid() calls
\* whose writes all succeed, once no call is in progress the access_token of
\* the durable record is the bearer token in memory.
C35_MemoryAndStoreAgreeAtRest ==
    AtRest => (file.kind = "record" /\ file.at = getAccessToken)

\* ------------------------------------------------------------ SpecShared:
\* a generate call and an invoke call on one AuthManager
\* Positions a call leaves without waiting for the network or the store: the
\* continuation of a settled promise runs before any other answer is handled.
Microtasks == {"ia_check", "ia_done", "sc_send"}
Continuing == \E p \in Procs : proc[p].pc \in Microtasks

\* The caller of generate and the caller of invoke.
Streamer == 1
Invoker == 2

InitShared ==
    /\ InitCommon
    /\ file = NoFile
    /\ env \in {MkEnv(FileRec("creds", SeedAT, SeedRT, e), "TRUE", "set") :
                    e \in {FreshExpiry, StaleExpiry}}

\* Continuations that are ready run first; then a call is started, or the
\* network or the store answers one of the calls.
NextShared ==
    \/ \E p \in {Streamer, Invoker} : Continuing /\ IaCheck(p)
    \/ Continuing /\ ScAuthDone(Streamer)
    \/ Continuing /\ ScSend(Streamer)
    \/ Continuing /\ CePost(Invoker)
    \/ Continuing /\ CeRetry(Invoker)
    \/ ~Continuing /\ StartGenerate(Streamer, "gemini-2.5-flash")
    \/ ~Continuing /\ StartInvoke(Invoker)
    \/ \E p \in {Streamer, Invoker} : ~Continuing /\ IaRead(p, FALSE)
    \/ \E p \in {Streamer, Invoker} : ~Continuing /\ RefreshOk(p, FALSE, 3600)
    \/ \E p \in {Streamer, Invoker} : ~Continuing /\ RefreshFail(p, "bodyA")
    \/ \E p \in {Streamer, Invoker} : ~Continuing /\ IaWrite(p, FALSE)
    \/ \E status \in EndpointStatuses :
            ~Continuing /\ CeResponse(Invoker, status, "bodyA")
    \/ ~Continuing /\ CeClear(Invoker, FALSE)
    \/ ~Continuing /\ PsResponse(Streamer, 200, ResponseBody(<<CandidatesEvent>>))
    \/ ~Continuing /\ ConsumerNext(Streamer)
    \/ ~Continuing /\ ConsumerReturn(Streamer)
    \/ ~Continuing /\ PsEvent(Streamer)
    \/ ~Continuing /\ PsEnd(Streamer)
    \/ ~Continuing /\ PsStreamError(Streamer)
    \/ ~Continuing /\ PsPropagate(Streamer)

SpecShared == InitShared /\ [][NextShared]_vars

\* ------------------------------------------------------------ C34
\* C34 (as claimed): every streaming request of a generate call is sent with
\* a bearer token that is not null, whatever other calls on the same
\* AuthManager do in between, an invoke that handles a 401 included.
C34_StreamRequestHasToken ==
    \A p \in Procs : \A i \in Idx(p) :
        (Generating(p) /\ Log(p)[i].ev = "req") => Log(p)[i].t # NullTok

\* ------------------------------------------------------------ C33
\* C33 (as claimed): a request that repeats an attempt (after a 401, a
\* transport failure or a quick failure) is sent only when no chunk of an
\* attempt with the same request has been yielded, so the consumer of one
\* generate call never receives the output of two attempts against one model.
C33_RetryOnlyBeforeFirstChunk ==
    \A p \in Procs : \A i \in Idx(p) :
        (Generating(p) /\ Log(p)[i].ev = "req"
                       /\ Log(p)[i].m \in {ViaReauth, ViaRetry}) =>
            \A j \in 1..(i - 1) :
                Log(p)[j].ev = "chunk" => AttemptOf(p, j).body # Log(p)[i].body

\* ------------------------------------------------------------ sanitizeSchemaForGemini
\* JSON values.  An object is the sequence of its entries in the order of
\* Object.entries; an array is the sequence of its items, whose keys are
\* empty; a string carries its text.
JsonEntry(k, val) == [k |-> k, val |-> val]
Str(s) == [t |-> "str", s |-> s, v |-> <<>>]
Arr(items) == [t |-> "arr", s |-> "", v |-> [i \in 1..Len(items) |-> JsonEntry("", items[i])]]
Obj(entries) == [t |-> "obj", s |-> "", v |-> entries]
Nul == [t |-> "null", s |-> "", v |-> <<>>]

\* Lines 10-39.
UNSUPPORTED_SCHEMA_KEYS ==
    {"$schema", "$id", "$ref", "$defs", "$comment", "const", "anyOf", "oneOf",
     "allOf", "not", "if", "then", "else", "dependentSchemas",
     "dependentRequired", "additionalItems", "unevaluatedItems",
     "unevaluatedProperties", "contentEncoding", "contentMediaType",
     "contentSchema", "deprecated", "readOnly", "writeOnly", "examples",
     "default", "definitions", "strict"}

\* `key.startsWith("$")`, over the keys that occur.
DollarKeys == {"$schema", "$id", "$ref", "$defs", "$comment", "$anchor"}
StartsWithDollar(key) == key \in DollarKeys

\* Line 59: `UNSUPPORTED_SCHEMA_KEYS.includes(key) || key.startsWith("$")`
Unsupported_ListOnly(key) == key \in UNSUPPORTED_SCHEMA_KEYS

Unsupported(key) == key \in UNSUPPORTED_SCHEMA_KEYS \/ StartsWithDollar(key)

\* String.prototype.toLowerCase, over the words that occur.
LowerCaseWords == {"object", "string", "array", "x", "a", "b", "default"}
ToLowerCase(s) ==
    CASE s \in {"OBJECT", "Object"} -> "object"
      [] s \in {"STRING", "String"} -> "string"
      [] s \in {"ARRAY", "Array"} -> "array"
      [] OTHER -> s

\* Property access on an object: `obj[key]`, and whether it is defined.
HasKey(obj, key) == \E i \in 1..Len(obj.v) : obj.v[i].k = key
GetKey(obj, key) == obj.v[CHOOSE i \in 1..Len(obj.v) : obj.v[i].k = key].val
\* Truthiness of a JSON value.
TruthyJson(val) == val.t \in {"obj", "arr"} \/ (val.t = "str" /\ val.s # "")
\* Object.keys of an object.
ObjectKeys(obj) == {obj.v[i].k : i \in 1..Len(obj.v)}

\* Lines 69-73: with `properties` and an array `required`, the entries of
\* `required` that are no property names are dropped.
FilterRequired(sanitized) ==
    IF /\ HasKey(sanitized, "properties") /\ TruthyJson(GetKey(sanitized, "properties"))
       /\ HasKey(sanitized, "required") /\ GetKey(sanitized, "required").t = "arr"
    THEN LET propertyNames == ObjectKeys(GetKey(sanitized, "properties"))
             required == GetKey(sanitized, "required")
             filtered == [required EXCEPT !.v =
                            SelectSeq(@, LAMBDA e :
                                e.val.t = "str" /\ e.val.s \in propertyNames)]
         IN [sanitized EXCEPT !.v =
                [i \in 1..Len(@) |->
                    IF @[i].k = "required" THEN JsonEntry("required", filtered)
                    ELSE @[i]]]
    ELSE sanitized

\* Lines 76-78: a `type` that is a string is put in lower case.
LowerCaseType(sanitized) ==
    [sanitized EXCEPT !.v =
        [i \in 1..Len(@) |->
            IF @[i].k = "type" /\ @[i].val.t = "str"
            THEN JsonEntry("type", Str(ToLowerCase(@[i].val.s)))
            ELSE @[i]]]

\* Lines 45-84.
RECURSIVE sanitizeSchemaForGemini(_)
sanitizeSchemaForGemini(schema) ==
    IF schema.t = "null" THEN schema
    ELSE IF schema.t = "arr"
    THEN [schema EXCEPT !.v =
            [i \in 1..Len(@) |-> JsonEntry("", sanitizeSchemaForGemini(@[i].val))]]
    ELSE IF schema.t = "obj"
    THEN LET kept == SelectSeq(schema.v, LAMBDA e : ~Unsupported(e.k))
             sanitized ==
                Obj([i \in 1..Len(kept) |->
                        JsonEntry(kept[i].k, sanitizeSchemaForGemini(kept[i].val))])
         IN LowerCaseType(FilterRequired(sanitized))
    ELSE schema

\* A schema handed to the sanitizer: what the caller holds (`given`), the
\* object the sanitizer reads (`schema`), and what it returns.
Sanitizing(schema) ==
    [kind |-> "sanitize", given |-> schema, schema |-> schema, out |-> Nul,
     done |-> FALSE]

\* The call of sanitizeSchemaForGemini: the result is built from new objects
\* and arrays, nothing is assigned into the argument.
SanitizeCall ==
    /\ unit.kind = "sanitize"
    /\ ~unit.done
    /\ unit' = [unit EXCEPT !.out = sanitizeSchemaForGemini(unit.schema),
                            !.done = TRUE]
    /\ UNCHANGED <<now, ticks, accessToken, file, issued, env, proc>>

\* ------------------------------------------------------------ SpecSanitize:
\* the sanitizer applied to the parameter schemas of function declarations
\* Declared properties of a schema, at most this many.
MaxProperties == 2

\* Names a function's parameters may have.
PropertyNames == <<"a", "b", "default">>

\* Schemas of single parameters.
PropertySchemas ==
    {Obj(<<JsonEntry("type", Str("STRING"))>>),
     Obj(<<JsonEntry("type", Str("string")), JsonEntry("default", Str("x"))>>),
     Obj(<<JsonEntry("type", Str("ARRAY")),
           JsonEntry("items", Obj(<<JsonEntry("$anchor", Str("x")),
                                    JsonEntry("type", Str("String"))>>))>>)}

\* The names of a set, in the order of PropertyNames.
NamesIn(S) == SelectSeq(PropertyNames, LAMBDA n : n \in S)
AllNames == {PropertyNames[i] : i \in 1..Len(PropertyNames)}

Declared(S, f) ==
    Obj([i \in 1..Len(NamesIn(S)) |-> JsonEntry(NamesIn(S)[i], f[NamesIn(S)[i]])])

\* Each of the four entries of an object schema is there or not.
TypeEntries == {<<>>} \cup {<<JsonEntry("type", Str(w))>> : w \in {"OBJECT", "object"}}
PropertiesEntries ==
    {<<>>} \cup
    UNION {{<<JsonEntry("properties", Declared(S, f))>> : f \in [S -> PropertySchemas]} :
            S \in {T \in SUBSET AllNames : Cardinality(T) <= MaxProperties}}
RequiredEntries ==
    {<<>>} \cup
    {<<JsonEntry("required",
                 Arr([i \in 1..Len(NamesIn(S)) |-> Str(NamesIn(S)[i])]))>> :
        S \in SUBSET AllNames}
OneOfEntries ==
    {<<>>, <<JsonEntry("oneOf", Arr(<<Obj(<<JsonEntry("type", Str("STRING"))>>)>>))>>}

ObjectSchemas ==
    {Obj(t \o p \o r \o o) :
        t \in TypeEntries, p \in PropertiesEntries, r \in RequiredEntries,
        o \in OneOfEntries}

InitSanitize ==
    /\ InitIdle
    /\ unit \in {Sanitizing(schema) : schema \in ObjectSchemas \cup {Nul}}

NextSanitize == SanitizeCall

SpecSanitize == InitSanitize /\ [][NextSanitize]_vars

\* Every object and array inside a value, the value included.
RECURSIVE Nodes(_)
Nodes(val) == {val} \cup UNION {Nodes(val.v[i].val) : i \in 1..Len(val.v)}
ObjectsIn(val) == {n \in Nodes(val) : n.t = "obj"}
Sanitized == unit.kind = "sanitize" /\ unit.done

\* ------------------------------------------------------------ C32
\* C32: the output of the sanitizer has, at any depth, no key of the denylist
\* and no key that starts with "$"; every `type` that is a string is in lower
\* case; wherever an object has `properties` and an array `required`, every
\* entry of `required` is a key of `properties`; and the input is as it was.
C32_SanitizedSchema ==
    Sanitized =>
        /\ \A n \in ObjectsIn(unit.out) :
            /\ \A key \in ObjectKeys(n) :
                key \notin UNSUPPORTED_SCHEMA_KEYS /\ ~StartsWithDollar(key)
            /\ (HasKey(n, "type") /\ GetKey(n, "type").t = "str") =>
                    GetKey(n, "type").s \in LowerCaseWords
            /\ (HasKey(n, "properties") /\ HasKey(n, "required")
                    /\ GetKey(n, "required").t = "arr") =>
                    \A i \in 1..Len(GetKey(n, "required").v) :
                        /\ GetKey(n, "required").v[i].val.t = "str"
                        /\ GetKey(n, "required").v[i].val.s
                                \in ObjectKeys(GetKey(n, "properties"))
        /\ unit.schema = unit.given

\* Witness of C32: the schema {type: "OBJECT", properties: {a: {type:
\* "STRING"}}, required: ["a", "b"], oneOf: [...]} has been sanitized to
\* {type: "object", properties: {a: {type: "string"}}, required: ["a"]}.
C32_Witness ==
    /\ Sanitized
    /\ unit.given =
        Obj(<<JsonEntry("type", Str("OBJECT")),
              JsonEntry("properties",
                        Obj(<<JsonEntry("a", Obj(<<JsonEntry("type", Str("STRING"))>>))>>)),
              JsonEntry("required", Arr(<<Str("a"), Str("b")>>)),
              JsonEntry("oneOf", Arr(<<Obj(<<JsonEntry("type", Str("STRING"))>>)>>))>>)
    /\ unit.out =
        Obj(<<JsonEntry("type", Str("object")),
              JsonEntry("properties",
                        Obj(<<JsonEntry("a", Obj(<<JsonEntry("type", Str("string"))>>))>>)),
              JsonEntry("required", Arr(<<Str("a")>>))>>)

\* ------------------------------------------------------------ C39
\* C39 (as claimed): the sanitizer keeps every declared parameter: the keys of
\* the sanitized `properties` are the keys of the input `properties`, also
\* when a property has the name of a denylisted key, and an entry of
\* `required` that names such a property is kept.
C39_DeclaredParametersKept ==
    (Sanitized /\ unit.given.t = "obj" /\ HasKey(unit.given, "properties")) =>
        /\ HasKey(unit.out, "properties")
        /\ ObjectKeys(GetKey(unit.out, "properties"))
                = ObjectKeys(GetKey(unit.given, "properties"))
        /\ HasKey(unit.given, "required") =>
            \A i \in 1..Len(GetKey(unit.given, "required").v) :
                LET field == GetKey(unit.given, "required").v[i] IN
                field.val.s \in ObjectKeys(GetKey(unit.given, "properties")) =>
                    \E j \in 1..Len(GetKey(unit.out, "required").v) :
                        GetKey(unit.out, "required").v[j] = field

\* ------------------------------------------------------------ convertContentsToNativeFormat
\* `obj[key] = val`: the value of an own key is replaced where it stands, a new
\* key is added at the end.
SetKey(obj, key, val) ==
    IF HasKey(obj, key)
    THEN [obj EXCEPT !.v = [i \in 1..Len(@) |->
                                IF @[i].k = key THEN JsonEntry(key, val) ELSE @[i]]]
    ELSE [obj EXCEPT !.v = Append(@, JsonEntry(key, val))]

\* Lines 262-277: the key under which an entry of a part is copied.
NativeKey(key) ==
    CASE key = "function_call" -> "functionCall"
      [] key = "function_response" -> "functionResponse"
      [] OTHER -> key

FunctionCallKeys == {"function_call", "functionCall"}
FunctionResponseKeys == {"function_response", "functionResponse"}

\* Lines 259-280: the entries of a part are copied one by one into newPart.
RECURSIVE CopyEntries(_, _)
CopyEntries(newPart, entries) ==
    IF entries = <<>> THEN newPart
    ELSE CopyEntries(SetKey(newPart, NativeKey(entries[1].k), entries[1].val),
                     Tail(entries))

ConvertPart(part) == CopyEntries(Obj(<<>>), part.v)

\* Lines 263-273: the flags the loop over the entries leaves behind.
HasPartKey(parts, keys) ==
    \E i \in 1..Len(parts.v) : ObjectKeys(parts.v[i].val) \cap keys # {}

\* Lines 283-290: the role of a content that has none: "user" with a function
\* response, else "model" with a function call, else still undefined.
InferRole_CallFirst(hasFunctionResponse, hasFunctionCall) ==
    IF hasFunctionCall THEN "model"
    ELSE IF hasFunctionResponse THEN "user"
    ELSE Undefined

InferRole(hasFunctionResponse, hasFunctionCall) ==
    IF hasFunctionResponse THEN "user"
    ELSE IF hasFunctionCall THEN "model"
    ELSE Undefined

\* Lines 250-296 for one content.  A role that is undefined is not part of the
\* request once it is serialized.
ConvertContent(content) ==
    IF ~HasKey(content, "parts") \/ GetKey(content, "parts").t # "arr"
    THEN content
    ELSE LET parts == GetKey(content, "parts")
             convertedParts ==
                [parts EXCEPT !.v = [i \in 1..Len(@) |->
                                        JsonEntry("", ConvertPart(@[i].val))]]
             supplied == HasKey(content, "role") /\ TruthyJson(GetKey(content, "role"))
             role == IF supplied THEN GetKey(content, "role").s
                     ELSE InferRole(HasPartKey(parts, FunctionResponseKeys),
                                    HasPartKey(parts, FunctionCallKeys))
             withRole == IF supplied \/ role = Undefined THEN content
                         ELSE SetKey(content, "role", Str(role))
         IN SetKey(withRole, "parts", convertedParts)

\* Line 250: `contents.map(...)`
convertContentsToNativeFormat(contents) ==
    [i \in 1..Len(contents) |-> ConvertContent(contents[i])]

Converting(contents) ==
    [kind |-> "convert", contents |-> contents, out |-> <<>>, done |-> FALSE]

\* buildNativeStreamRequest, line 356.
ConvertCall ==
    /\ unit.kind = "convert"
    /\ ~unit.done
    /\ unit' = [unit EXCEPT !.out = convertContentsToNativeFormat(unit.contents),
                            !.done = TRUE]
    /\ UNCHANGED <<now, ticks, accessToken, file, issued, env, proc>>

\* ------------------------------------------------------------ SpecConvert:
\* the conversion applied to the contents of a request
\* Parts of a content, at most this many.
MaxParts == 2

\* The entries a part may have; a part carries a field in one spelling.
PartEntries ==
    {JsonEntry("text", Str("hello")),
     JsonEntry("function_call", Str("call_snake")),
     JsonEntry("functionCall", Str("call_camel")),
     JsonEntry("function_response", Str("response_snake")),
     JsonEntry("functionResponse", Str("response_camel"))}

ContentParts ==
    {Obj(<<>>)}
    \cup {Obj(<<e>>) : e \in PartEntries}
    \cup {Obj(<<pair[1], pair[2]>>) :
            pair \in {q \in PartEntries \X PartEntries :
                        NativeKey(q[1].k) # NativeKey(q[2].k)}}

\* A role is not given, empty, or one of the two roles of the API.
RoleEntries ==
    {<<>>} \cup {<<JsonEntry("role", Str(r))>> : r \in {"", "user", "model"}}
\* `parts` is not given, is no array, or is an array of up to MaxParts parts.
PartsEntries ==
    {<<>>, <<JsonEntry("parts", Str("hello"))>>}
    \cup {<<JsonEntry("parts", Arr(parts))>> :
            parts \in UNION {[1..n -> ContentParts] : n \in 0..MaxParts}}

Contents == {Obj(r \o p) : r \in RoleEntries, p \in PartsEntries}

\* Contents without a role and with one part of one entry, for the requests
\* of two contents.
PlainContents ==
    {Obj(<<JsonEntry("parts", Arr(<<Obj(<<e>>)>>))>>) : e \in PartEntries}

InitConvert ==
    /\ InitIdle
    /\ unit \in {Converting(<<c>>) : c \in Contents}
            \cup {Converting(<<c, d>>) : c \in PlainContents, d \in PlainContents}

NextConvert == ConvertCall

SpecConvert == InitConvert /\ [][NextConvert]_vars

Converted == unit.kind = "convert" /\ unit.done
\* The content has an array of parts, and the parts have a key among `keys`.
HasParts(content) == HasKey(content, "parts") /\ GetKey(content, "parts").t = "arr"
RoleOf(content) == IF HasKey(content, "role") THEN GetKey(content, "role").s ELSE Undefined

====
